---- MODULE Spec2Model ----
(***************************************************************************)
(* Model of the alerting engine (llm/alerts.py) and of the P95 computations *)
(* of the metrics service (llm/metrics.py) of the LLM observability        *)
(* dashboard.                                                              *)
(***************************************************************************)
EXTENDS Integers, Sequences, FiniteSets, TLC

(***************************************************************************)
(* Python float arithmetic.  A Python float is an IEEE-754 double.  A      *)
(* non-negative double is modelled exactly: its 53-bit significand is a    *)
(* leading 1 followed by four 13-bit limbs m[1..4], and e is the exponent   *)
(* of the leading 1, so the value is                                       *)
(*    (2^52 + m[1]*2^39 + m[2]*2^26 + m[3]*2^13 + m[4]) * 2^(e-52).        *)
(* Every operation rounds its exact result to nearest, ties to even, as    *)
(* the hardware does.  Operands are the small ints of this model (below    *)
(* 2^13), so every intermediate fits TLC's integers.                       *)
(***************************************************************************)
Limb == 8192

FloatZero == [z |-> TRUE, e |-> 0, m |-> <<0, 0, 0, 0>>]

RECURSIVE Pow2(_)
Pow2(k) == IF k = 0 THEN 1 ELSE 2 * Pow2(k - 1)

\* the largest k with x * 2^k <= y, for 0 < x <= y
RECURSIVE ShiftUp(_, _)
ShiftUp(x, y) == IF 2 * x <= y THEN 1 + ShiftUp(2 * x, y) ELSE 0

\* the least k with x * 2^k >= y, for 0 < x
RECURSIVE ShiftDown(_, _)
ShiftDown(x, y) == IF x >= y THEN 0 ELSE 1 + ShiftDown(2 * x, y)

\* the significand m plus one unit in the last place
FloatNextUp(e, m) ==
    IF m[4] + 1 < Limb THEN [z |-> FALSE, e |-> e, m |-> [m EXCEPT ![4] = @ + 1]]
    ELSE IF m[3] + 1 < Limb
         THEN [z |-> FALSE, e |-> e, m |-> <<m[1], m[2], m[3] + 1, 0>>]
    ELSE IF m[2] + 1 < Limb
         THEN [z |-> FALSE, e |-> e, m |-> <<m[1], m[2] + 1, 0, 0>>]
    ELSE IF m[1] + 1 < Limb
         THEN [z |-> FALSE, e |-> e, m |-> <<m[1] + 1, 0, 0, 0>>]
    ELSE [z |-> FALSE, e |-> e + 1, m |-> <<0, 0, 0, 0>>]

\* round to nearest, ties to even: guard is the first dropped bit, sticky
\* tells whether any later dropped bit is set
FloatRound(e, m, guard, sticky) ==
    IF guard = 1 /\ (sticky \/ m[4] % 2 = 1)
    THEN FloatNextUp(e, m)
    ELSE [z |-> FALSE, e |-> e, m |-> m]

\* float(n) for an int 0 <= n < 2^14
FloatOfNat(n) ==
    IF n = 0 THEN FloatZero
    ELSE LET e == ShiftUp(1, n)
         IN  [z |-> FALSE, e |-> e,
              m |-> <<(n - Pow2(e)) * Pow2(13 - e), 0, 0, 0>>]

\* a / b for ints a >= 0, b > 0: Python's true division, correctly rounded
FloatDivNat(a, b) ==
    IF a = 0 THEN FloatZero
    ELSE LET e   == IF a >= b THEN ShiftUp(b, a) ELSE 0 - ShiftDown(a, b)
             num == IF a >= b THEN a ELSE a * Pow2(0 - e)
             den == IF a >= b THEN b * Pow2(e) ELSE b
             r0  == num - den
             c1  == (r0 * Limb) \div den
             r1  == (r0 * Limb) % den
             c2  == (r1 * Limb) \div den
             r2  == (r1 * Limb) % den
             c3  == (r2 * Limb) \div den
             r3  == (r2 * Limb) % den
             c4  == (r3 * Limb) \div den
             r4  == (r3 * Limb) % den
             g   == IF 2 * r4 >= den THEN 1 ELSE 0
         IN  FloatRound(e, <<c1, c2, c3, c4>>, g, 2 * r4 - g * den # 0)

\* f * k for a float f and an int 0 <= k < 2^13 (k converts exactly)
FloatMulNat(f, k) ==
    IF f.z \/ k = 0 THEN FloatZero
    ELSE LET p4  == f.m[4] * k
             p3  == f.m[3] * k + p4 \div Limb
             p2  == f.m[2] * k + p3 \div Limb
             p1  == f.m[1] * k + p2 \div Limb
             top == k + p1 \div Limb
             s   == ShiftUp(1, top)
             d   == Pow2(s)
             up  == Limb \div d
             q1  == (top % d) * up + (p1 % Limb) \div d
             q2  == ((p1 % Limb) % d) * up + (p2 % Limb) \div d
             q3  == ((p2 % Limb) % d) * up + (p3 % Limb) \div d
             q4  == ((p3 % Limb) % d) * up + (p4 % Limb) \div d
             low == (p4 % Limb) % d
         IN  IF s = 0
             THEN [z |-> FALSE, e |-> f.e,
                   m |-> <<p1 % Limb, p2 % Limb, p3 % Limb, p4 % Limb>>]
             ELSE FloatRound(f.e + s, <<q1, q2, q3, q4>>,
                             low \div (d \div 2), low % (d \div 2) # 0)

\* int(f): truncation towards zero, for f < 2^14
FloatTrunc(f) ==
    IF f.z \/ f.e < 0 THEN 0
    ELSE Pow2(f.e) + f.m[1] \div Pow2(13 - f.e)

\* f >= g
FloatGe(f, g) ==
    IF g.z THEN TRUE
    ELSE IF f.z THEN FALSE
    ELSE IF f.e # g.e THEN f.e > g.e
    ELSE IF f.m[1] # g.m[1] THEN f.m[1] > g.m[1]
    ELSE IF f.m[2] # g.m[2] THEN f.m[2] > g.m[2]
    ELSE IF f.m[3] # g.m[3] THEN f.m[3] > g.m[3]
    ELSE f.m[4] >= g.m[4]

\* Round2 cutting the digits after the second place off
Round2Down(f) ==
    IF f.z THEN 0
    ELSE LET p4  == f.m[4] * 100
             p3  == f.m[3] * 100 + p4 \div Limb
             p2  == f.m[2] * 100 + p3 \div Limb
             p1  == f.m[1] * 100 + p2 \div Limb
             top == (100 + p1 \div Limb) * Limb + (p1 % Limb)
         IN  top \div Pow2(13 - f.e)

\* round(f, 2), as its number of hundredths: the decimal with two places
\* nearest to the exact value of f, ties to even, for 2^-17 <= f < 2^13.
\* f * 100 is formed exactly, limb by limb; its integer part and the bits
\* after it decide.
Round2(f) ==
    IF f.z THEN 0
    ELSE LET p4   == f.m[4] * 100
             p3   == f.m[3] * 100 + p4 \div Limb
             p2   == f.m[2] * 100 + p3 \div Limb
             p1   == f.m[1] * 100 + p2 \div Limb
             top  == (100 + p1 \div Limb) * Limb + (p1 % Limb)
             unit == Pow2(13 - f.e)
             int  == top \div unit
             frac == top % unit
             rest == (p2 % Limb) # 0 \/ (p3 % Limb) # 0 \/ (p4 % Limb) # 0
         IN  IF \/ 2 * frac > unit
                \/ 2 * frac = unit /\ (rest \/ (int % 2) = 1)
             THEN int + 1
             ELSE int

(***************************************************************************)
(* The record store.  A request log row keeps the fields the alert engine  *)
(* and the P95 computations read.  Time is counted in whole minutes.       *)
(***************************************************************************)
MaxTime == 2
MaxLogs == 2
MaxAlerts == 1
NumRules == 2

NoTime == -1

LogKinds ==
    { [status |-> "success", latency_ms |-> 1, total_tokens |-> 1],
      [status |-> "success", latency_ms |-> 2, total_tokens |-> 2],
      [status |-> "error",   latency_ms |-> 3, total_tokens |-> 0] }

LogRow(t, status, latency_ms, total_tokens) ==
    [timestamp |-> t, model_name |-> "llama", status |-> status,
     latency_ms |-> latency_ms, total_tokens |-> total_tokens]

MetricTypes == {"error_rate", "latency", "token_spike", "other"}
Thresholds == {0, 2}
Windows == {1, 2}
RecipientSettings == { <<>>, <<"">>, <<"ops@example.com">> }

VARIABLES
    now,               \* the clock read by timezone.now()
    logs,              \* LLMRequestLog rows, in insertion order
    rules,             \* AlertRule rows, by id
    alertLogs,         \* AlertLog rows, in insertion order
    email_recipients,  \* AlertService.email_recipients
    pc,                \* where the check_all_alerts call stands
    window,            \* its time_window_minutes
    active_rules,      \* the rules its loop has still to check
    triggered_alerts,  \* its local list (indexes into alertLogs)
    result,            \* what its caller received
    notifyCalls,       \* calls of _send_email_notification (rule ids)
    outbox,            \* mails the backend accepted (rule ids)
    response,          \* what the last metrics query returned
    lastCheck,         \* the _check_rule call the last step made, if any
    callers,           \* the locals of calls that run side by side
    otps,              \* EmailOTP rows, in insertion order
    requests           \* the OTP verification requests answered so far

vars == << now, logs, rules, alertLogs, email_recipients, pc, window,
           active_rules, triggered_alerts, result, notifyCalls, outbox,
           response, lastCheck, callers, otps, requests >>

RuleIds == 1..NumRules

(***************************************************************************)
(* Querysets                                                               *)
(***************************************************************************)
\* filter(timestamp__gte=start_time, timestamp__lte=end_time)
FilterTimestamp(queryset, start_time, end_time) ==
    SelectSeq(queryset,
              LAMBDA r : r.timestamp >= start_time /\ r.timestamp <= end_time)

\* filter(status=s)
FilterStatus(queryset, s) == SelectSeq(queryset, LAMBDA r : r.status = s)

RECURSIVE InsertSorted(_, _)
InsertSorted(s, x) ==
    IF s = <<>> THEN <<x>>
    ELSE IF x <= Head(s) THEN <<x>> \o s
    ELSE <<Head(s)>> \o InsertSorted(Tail(s), x)

RECURSIVE SortAscending(_)
SortAscending(s) ==
    IF s = <<>> THEN <<>>
    ELSE InsertSorted(SortAscending(Tail(s)), Head(s))

\* list(values_list('latency_ms', flat=True).order_by('latency_ms'))
OrderedLatencies(queryset) ==
    SortAscending([i \in 1..Len(queryset) |-> queryset[i].latency_ms])

\* aggregate(total=Sum('total_tokens'))['total'] or 0
RECURSIVE SumTotalTokens(_)
SumTotalTokens(queryset) ==
    IF queryset = <<>> THEN 0
    ELSE Head(queryset).total_tokens + SumTotalTokens(Tail(queryset))

\* a Python list subscript l[i], i >= 0
ListGet(l, i) == IF i < Len(l) THEN l[i + 1] ELSE "IndexError"

Min(a, b) == IF a <= b THEN a ELSE b

(***************************************************************************)
(* The three P95 computations, each on the ascending list it is given      *)
(***************************************************************************)
\* the float literal 0.95
Float095 == FloatDivNat(19, 20)

\* int(len(latencies) * 0.95)
P95Index(n) == FloatTrunc(FloatMulNat(Float095, n))

OverviewP95(latencies) ==
    IF latencies # <<>> THEN ListGet(latencies, P95Index(Len(latencies)))
    ELSE 0

LatencyMetricsP95(latencies) ==
    LET p95_index == IF latencies # <<>> THEN P95Index(Len(latencies)) ELSE 0
    IN  IF latencies # <<>> /\ p95_index < Len(latencies)
        THEN ListGet(latencies, p95_index)
        ELSE 0

\* mutant: the P95 taken to be the largest latency
AlertP95Max(latencies) == ListGet(latencies, Len(latencies) - 1)

AlertP95(latencies) ==
    ListGet(latencies, Min(P95Index(Len(latencies)), Len(latencies) - 1))

(***************************************************************************)
(* AlertService: the checks.  A check yields None or the metric value it   *)
(* hands to _trigger_alert.                                                *)
(***************************************************************************)
None == [alert |-> FALSE, metric_value |-> FloatZero]

TriggerAlert(metric_value) == [alert |-> TRUE, metric_value |-> metric_value]

\* (error_count / total_count) * 100 if total_count > 0 else 0
ErrorRate(error_count, total_count) ==
    IF total_count > 0
    THEN FloatMulNat(FloatDivNat(error_count, total_count), 100)
    ELSE FloatZero

CheckErrorRate(rule, queryset, total_count) ==
    LET error_count == Len(FilterStatus(queryset, "error"))
        error_rate  == ErrorRate(error_count, total_count)
    IN  IF FloatGe(error_rate, FloatOfNat(rule.threshold))
        THEN TriggerAlert(error_rate)
        ELSE None

\* CheckLatency without filter(status='success')
CheckLatencyAllRows(rule, queryset) ==
    LET latencies   == OrderedLatencies(queryset)
        p95_latency == AlertP95(latencies)
    IN  IF latencies = <<>> THEN None
        ELSE IF p95_latency >= rule.threshold
             THEN TriggerAlert(FloatOfNat(p95_latency))
             ELSE None

CheckLatency(rule, queryset) ==
    LET success_queryset == FilterStatus(queryset, "success")
        latencies        == OrderedLatencies(success_queryset)
        p95_latency      == AlertP95(latencies)
    IN  IF latencies = <<>> THEN None
        ELSE IF p95_latency >= rule.threshold
             THEN TriggerAlert(FloatOfNat(p95_latency))
             ELSE None

\* SpikeRatio with a ratio of 0 whenever there is no previous usage
SpikeRatioNoBaseline(current_tokens, previous_tokens) ==
    IF previous_tokens > 0
    THEN FloatDivNat(current_tokens, previous_tokens)
    ELSE FloatZero

\* previous_tokens > 0: current / previous; else float(current) or 0
SpikeRatio(current_tokens, previous_tokens) ==
    IF previous_tokens > 0
    THEN FloatDivNat(current_tokens, previous_tokens)
    ELSE IF current_tokens > 0 THEN FloatOfNat(current_tokens) ELSE FloatZero

\* the rows of the previous period, the clock reading t at the second read
PreviousQueryset(store, t, time_window_minutes) ==
    LET end_time   == t - time_window_minutes
        start_time == end_time - time_window_minutes
    IN  FilterTimestamp(store, start_time, end_time)

\* CheckTokenSpike taking every period without previous usage for a spike
CheckTokenSpikeNoBaseline(rule, queryset, time_window_minutes, store, t) ==
    LET current_tokens  == SumTotalTokens(queryset)
        previous_tokens ==
            SumTotalTokens(PreviousQueryset(store, t, time_window_minutes))
        spike_ratio     == SpikeRatio(current_tokens, previous_tokens)
    IN  IF \/ previous_tokens = 0
           \/ FloatGe(spike_ratio, FloatOfNat(rule.threshold))
        THEN TriggerAlert(spike_ratio)
        ELSE None

CheckTokenSpike(rule, queryset, time_window_minutes, store, t) ==
    LET current_tokens  == SumTotalTokens(queryset)
        previous_tokens ==
            SumTotalTokens(PreviousQueryset(store, t, time_window_minutes))
        spike_ratio     == SpikeRatio(current_tokens, previous_tokens)
    IN  IF FloatGe(spike_ratio, FloatOfNat(rule.threshold))
        THEN TriggerAlert(spike_ratio)
        ELSE None

\* the rows of the current window, the clock reading t at the first read
RecentQueryset(store, t, time_window_minutes) ==
    LET end_time   == t
        start_time == end_time - time_window_minutes
    IN  FilterTimestamp(store, start_time, end_time)

\* CheckRuleResult taking a metric_type it does not know for error_rate
CheckRuleResultDefault(rule, time_window_minutes, store, t1, t2) ==
    LET queryset    == RecentQueryset(store, t1, time_window_minutes)
        total_count == Len(queryset)
    IN  IF total_count = 0 THEN None
        ELSE IF rule.metric_type = "latency"
             THEN CheckLatency(rule, queryset)
        ELSE IF rule.metric_type = "token_spike"
             THEN CheckTokenSpike(rule, queryset, time_window_minutes,
                                  store, t2)
        ELSE CheckErrorRate(rule, queryset, total_count)

\* CheckRuleResult returning None for a rule that has triggered before
CheckRuleResultOnce(rule, time_window_minutes, store, t1, t2) ==
    LET queryset    == RecentQueryset(store, t1, time_window_minutes)
        total_count == Len(queryset)
    IN  IF total_count = 0 \/ rule.last_triggered_at # NoTime THEN None
        ELSE IF rule.metric_type = "error_rate"
             THEN CheckErrorRate(rule, queryset, total_count)
        ELSE IF rule.metric_type = "latency"
             THEN CheckLatency(rule, queryset)
        ELSE IF rule.metric_type = "token_spike"
             THEN CheckTokenSpike(rule, queryset, time_window_minutes,
                                  store, t2)
        ELSE None

\* CheckRuleResult without the return on an empty window
CheckRuleResultNoGuard(rule, time_window_minutes, store, t1, t2) ==
    LET queryset    == RecentQueryset(store, t1, time_window_minutes)
        total_count == Len(queryset)
    IN  IF rule.metric_type = "error_rate"
        THEN CheckErrorRate(rule, queryset, total_count)
        ELSE IF rule.metric_type = "latency"
             THEN CheckLatency(rule, queryset)
        ELSE IF rule.metric_type = "token_spike"
             THEN CheckTokenSpike(rule, queryset, time_window_minutes,
                                  store, t2)
        ELSE None

\* _check_rule: t1 and t2 are the clock at its read and at the read of
\* _check_token_spike
CheckRuleResult(rule, time_window_minutes, store, t1, t2) ==
    LET queryset    == RecentQueryset(store, t1, time_window_minutes)
        total_count == Len(queryset)
    IN  IF total_count = 0 THEN None
        ELSE IF rule.metric_type = "error_rate"
             THEN CheckErrorRate(rule, queryset, total_count)
        ELSE IF rule.metric_type = "latency"
             THEN CheckLatency(rule, queryset)
        ELSE IF rule.metric_type = "token_spike"
             THEN CheckTokenSpike(rule, queryset, time_window_minutes,
                                  store, t2)
        ELSE None

\* the clock readings _check_token_spike can get when _check_rule got t1;
\* the other checks do not read the clock again
SecondRead(rule, time_window_minutes, store, t1) ==
    IF /\ rule.metric_type = "token_spike"
       /\ RecentQueryset(store, t1, time_window_minutes) # <<>>
    THEN t1..Min(t1 + 1, MaxTime)
    ELSE {t1}

\* SendEmailNotification without the try/except around send_mail
SendEmailNotificationUncaught(mail_ok) == IF mail_ok THEN "True" ELSE "raise"

\* _send_email_notification: what it returns; a failure of send_mail is
\* caught and logged
SendEmailNotification(mail_ok) == IF mail_ok THEN "True" ELSE "False"

\* ShouldNotify looking at the rule's flag only
ShouldNotifyFlagOnly(rule, recipients) == rule.notify_email

\* if rule.notify_email and self.email_recipients
ShouldNotify(rule, recipients) == rule.notify_email /\ recipients # <<>>

NoResponse == [op |-> "none"]

\* lastCheck when the last step was not a _check_rule call
NoCheck == [rule |-> 0, t1 |-> 0, outcome |-> "no call", mail |-> "skipped"]

(***************************************************************************)
(* Initial state                                                           *)
(***************************************************************************)
\* the rules an operator can have made active
RuleConfigs ==
    [ metric_type : MetricTypes, threshold : Thresholds,
      is_active : {TRUE}, notify_email : BOOLEAN,
      last_triggered_at : {NoTime} ]

\* an inactive rule
QuietRule ==
    [metric_type |-> "error_rate", threshold |-> 0, is_active |-> FALSE,
     notify_email |-> TRUE, last_triggered_at |-> NoTime]

\* [email.strip() for email in ALERT_EMAIL_RECIPIENTS if email.strip()]
StripRecipients(setting) == SelectSeq(setting, LAMBDA email : email # "")

InitStore(store, table, recipients) ==
    /\ now = 0
    /\ logs = store
    /\ rules = table
    /\ alertLogs = <<>>
    /\ email_recipients = recipients
    /\ pc = "idle"
    /\ window = 0
    /\ active_rules = <<>>
    /\ triggered_alerts = <<>>
    /\ result = <<>>
    /\ notifyCalls = <<>>
    /\ outbox = <<>>
    /\ response = NoResponse
    /\ lastCheck = NoCheck
    /\ callers = <<>>
    /\ otps = <<>>
    /\ requests = <<>>

\* one active rule of any kind, an empty store
Init ==
    \E rule \in RuleConfigs, setting \in RecipientSettings :
        InitStore(<<>>,
                  [id \in RuleIds |-> IF id = 1 THEN rule ELSE QuietRule],
                  StripRecipients(setting))

(***************************************************************************)
(* Actions                                                                 *)
(***************************************************************************)
Tick ==
    /\ now < MaxTime
    /\ now' = now + 1
    /\ lastCheck' = NoCheck
    /\ UNCHANGED << logs, rules, alertLogs, email_recipients, pc, window,
                    active_rules, triggered_alerts, result, notifyCalls,
                    outbox, response >>
    /\ UNCHANGED << callers, otps, requests >>

\* GroqLLMService._save_log: one row, stamped by the timestamp default
SaveLog ==
    /\ Len(logs) < MaxLogs
    /\ \E k \in LogKinds :
           logs' = Append(logs, LogRow(now, k.status, k.latency_ms,
                                       k.total_tokens))
    /\ lastCheck' = NoCheck
    /\ UNCHANGED << now, rules, alertLogs, email_recipients, pc, window,
                    active_rules, triggered_alerts, result, notifyCalls,
                    outbox, response >>
    /\ UNCHANGED << callers, otps, requests >>

\* AlertRule.objects.filter(is_active=True), newest rule first
RECURSIVE ActiveRulesTwice(_, _)
\* ActiveRules handing every active rule to the loop twice
ActiveRulesTwice(table, n) ==
    IF n = 0 THEN <<>>
    ELSE (IF table[n].is_active THEN <<n, n>> ELSE <<>>)
             \o ActiveRulesTwice(table, n - 1)

RECURSIVE ActiveRules(_, _)
ActiveRules(table, n) ==
    IF n = 0 THEN <<>>
    ELSE (IF table[n].is_active THEN <<n>> ELSE <<>>)
             \o ActiveRules(table, n - 1)

\* the start of a pass, as long as fewer than limit alerts are recorded
CheckAllAlertsWithin(limit) ==
    /\ pc # "running"
    /\ Len(alertLogs) < limit
    /\ \E time_window_minutes \in Windows : window' = time_window_minutes
    /\ active_rules' = ActiveRules(rules, NumRules)
    /\ triggered_alerts' = <<>>
    /\ result' = <<>>
    /\ pc' = "running"
    /\ lastCheck' = NoCheck
    /\ UNCHANGED << now, logs, rules, alertLogs, email_recipients,
                    notifyCalls, outbox, response >>
    /\ UNCHANGED << callers, otps, requests >>

CheckAllAlerts == CheckAllAlertsWithin(MaxAlerts)

\* AlertLog.objects.create(alert_rule=rule, message=..., metric_value=...)
\* at time t; the message is not modelled
CreateAlertLog(id, metric_value, t) ==
    [alert_rule |-> id, metric_value |-> metric_value, triggered_at |-> t,
     acknowledged |-> FALSE, acknowledged_at |-> NoTime]

\* StampRule writing the time to every rule
StampEveryRule(table, id, t) ==
    [i \in DOMAIN table |-> [table[i] EXCEPT !.last_triggered_at = t]]

\* rule.last_triggered_at = timezone.now();
\* rule.save(update_fields=['last_triggered_at'])
StampRule(table, id, t) == [table EXCEPT ![id].last_triggered_at = t]

\* one turn of the loop: _check_rule and, on a trigger, _trigger_alert.
\* store_ok: the store answers the queries; mail_ok: send_mail succeeds;
\* t2: the clock when _check_token_spike reads it.
CheckRule ==
    /\ pc = "running"
    /\ active_rules # <<>>
    /\ LET id == Head(active_rules)
           rule == rules[id]
       IN  \E store_ok \in BOOLEAN, mail_ok \in BOOLEAN,
              t2 \in SecondRead(rule, window, logs, now) :
           IF ~store_ok
           THEN \* the query raises: nothing catches it before the caller
                /\ pc' = "raised"
                /\ lastCheck' = [rule |-> id, t1 |-> now,
                                 outcome |-> "raised", mail |-> "skipped"]
                /\ UNCHANGED << now, logs, rules, alertLogs,
                                email_recipients, window, active_rules,
                                triggered_alerts, result, notifyCalls,
                                outbox, response >>
           ELSE \E r \in {CheckRuleResult(rule, window, logs, now, t2)} :
                \E mail \in {IF r.alert /\ ShouldNotify(rule, email_recipients)
                             THEN SendEmailNotification(mail_ok)
                             ELSE "skipped"} :
                    /\ now' = t2
                    /\ lastCheck' =
                         [rule |-> id, t1 |-> now,
                          outcome |-> IF mail = "raise" THEN "raised"
                                      ELSE IF r.alert THEN "alert"
                                      ELSE "none",
                          mail |-> mail]
                    /\ IF r.alert
                       THEN /\ alertLogs' =
                                 Append(alertLogs,
                                        CreateAlertLog(id, r.metric_value,
                                                       t2))
                            /\ rules' = StampRule(rules, id, t2)
                            /\ notifyCalls' = IF mail = "skipped"
                                              THEN notifyCalls
                                              ELSE Append(notifyCalls, id)
                            /\ outbox' = IF mail = "True"
                                         THEN Append(outbox, id)
                                         ELSE outbox
                       ELSE UNCHANGED << alertLogs, rules, notifyCalls,
                                         outbox >>
                    /\ IF mail = "raise"
                       THEN /\ pc' = "raised"
                            /\ UNCHANGED << active_rules, triggered_alerts >>
                       ELSE /\ pc' = pc
                            /\ active_rules' = Tail(active_rules)
                            /\ triggered_alerts' =
                                 IF r.alert
                                 THEN Append(triggered_alerts,
                                             Len(alertLogs) + 1)
                                 ELSE triggered_alerts
                    /\ UNCHANGED << logs, email_recipients, window, result,
                                    response >>
    /\ UNCHANGED << callers, otps, requests >>

\* return triggered_alerts
CheckAllAlertsReturn ==
    /\ pc = "running"
    /\ active_rules = <<>>
    /\ result' = triggered_alerts
    /\ pc' = "returned"
    /\ window' = 0
    /\ triggered_alerts' = <<>>
    /\ lastCheck' = NoCheck
    /\ UNCHANGED << now, logs, rules, alertLogs, email_recipients,
                    active_rules, notifyCalls, outbox, response >>
    /\ UNCHANGED << callers, otps, requests >>

(***************************************************************************)
(* MetricsService queries (called without filters)                         *)
(***************************************************************************)
\* get_overview_metrics on the filtered queryset.  error_rate is held as
\* its number of hundredths; total_cost and avg_latency_ms are modelled in
\* the answer for no rows only.
OverviewMetrics(queryset) ==
    LET total_calls == Len(queryset)
        error_count == Len(FilterStatus(queryset, "error"))
    IN  IF total_calls = 0
        THEN [op |-> "overview", total_calls |-> 0, total_tokens |-> 0,
              total_cost |-> 0, avg_latency_ms |-> 0,
              p95_latency_ms |-> 0, error_rate |-> 0,
              success_count |-> 0, error_count |-> 0]
        ELSE [op |-> "overview", total_calls |-> total_calls,
              total_tokens |-> SumTotalTokens(queryset),
              p95_latency_ms |-> OverviewP95(OrderedLatencies(queryset)),
              error_rate |-> Round2(ErrorRate(error_count, total_calls)),
              success_count |-> Len(FilterStatus(queryset, "success")),
              error_count |-> error_count]

GetOverviewMetrics ==
    /\ response' = OverviewMetrics(logs)
    /\ lastCheck' = NoCheck
    /\ UNCHANGED << now, logs, rules, alertLogs, email_recipients, pc, window,
                    active_rules, triggered_alerts, result, notifyCalls,
                    outbox >>
    /\ UNCHANGED << callers, otps, requests >>

\* filter(model_name=model)
FilterModel(queryset, model) ==
    SelectSeq(queryset, LAMBDA r : r.model_name = model)

\* values_list('model_name', flat=True).distinct(): the default ordering
\* ('-timestamp') puts the timestamp among the columns DISTINCT compares, so
\* there is one entry for each (model_name, timestamp) present
DistinctModels(queryset) ==
    { <<queryset[i].model_name, queryset[i].timestamp>> :
          i \in 1..Len(queryset) }

\* one row of get_latency_metrics; avg_latency_ms is not modelled
LatencyRow(queryset, model) ==
    LET model_queryset == FilterModel(queryset, model)
        latencies      == OrderedLatencies(model_queryset)
    IN  [model_name |-> model,
         min_latency_ms |-> latencies[1],
         max_latency_ms |-> latencies[Len(latencies)],
         p95_latency_ms |-> LatencyMetricsP95(latencies),
         call_count |-> Len(model_queryset)]

\* get_latency_metrics: the rows, by the entry of DistinctModels they are for
LatencyMetrics(store) ==
    LET queryset == FilterStatus(store, "success")
    IN  [op |-> "latency",
         rows |-> [k \in DistinctModels(queryset) |->
                       LatencyRow(queryset, k[1])]]

GetLatencyMetrics ==
    /\ response' = LatencyMetrics(logs)
    /\ lastCheck' = NoCheck
    /\ UNCHANGED << now, logs, rules, alertLogs, email_recipients, pc, window,
                    active_rules, triggered_alerts, result, notifyCalls,
                    outbox >>
    /\ UNCHANGED << callers, otps, requests >>

Next ==
    \/ Tick
    \/ SaveLog
    \/ CheckAllAlerts
    \/ CheckRule
    \/ CheckAllAlertsReturn

Spec == Init /\ [][Next]_vars

(***************************************************************************)
(* Passes over several rules: every rule is an error_rate rule of          *)
(* threshold 0 (it triggers whenever its window holds a row), active or    *)
(* not; the store holds no row or one row, and none is added.              *)
(***************************************************************************)
PassRules ==
    [ metric_type : {"error_rate"}, threshold : {0}, is_active : BOOLEAN,
      notify_email : {TRUE}, last_triggered_at : {NoTime} ]

PassStores ==
    {<<>>} \cup {<<LogRow(0, k.status, k.latency_ms, k.total_tokens)>> :
                     k \in LogKinds}

InitPass ==
    \E store \in PassStores, table \in [RuleIds -> PassRules],
       setting \in RecipientSettings :
        InitStore(store, table, StripRecipients(setting))

NextPass ==
    \/ Tick
    \/ CheckAllAlerts
    \/ CheckRule
    \/ CheckAllAlertsReturn

SpecPass == InitPass /\ [][NextPass]_vars

(***************************************************************************)
(* Repeated passes: one active rule of any kind, a store of no row or one  *)
(* row that does not change, and passes start as long as fewer than        *)
(* MaxRepeat alerts are recorded.                                          *)
(***************************************************************************)
MaxRepeat == 2

InitRepeat ==
    \E store \in PassStores, rule \in RuleConfigs,
       setting \in RecipientSettings :
        InitStore(store,
                  [id \in RuleIds |-> IF id = 1 THEN rule ELSE QuietRule],
                  StripRecipients(setting))

CheckAllAlertsAgain == CheckAllAlertsWithin(MaxRepeat)

NextRepeat ==
    \/ Tick
    \/ CheckAllAlertsAgain
    \/ CheckRule
    \/ CheckAllAlertsReturn

SpecRepeat == InitRepeat /\ [][NextRepeat]_vars

-----------------------------------------------------------------------------
\* Passes that meet a rule of a metric_type the dispatch does not know: the
\* loop takes the active rules from the highest id down, the rule of that
\* type first and a rule that fires on any row last.

\* a row with a metric_type outside METRIC_TYPE_CHOICES; choices are checked
\* by forms and serializers, not by the database
UnknownRules ==
    [ metric_type : {"other"}, threshold : Thresholds, is_active : {TRUE},
      notify_email : BOOLEAN, last_triggered_at : {NoTime} ]

InitDispatch ==
    \E store \in PassStores, unknown \in UnknownRules, last \in PassRules,
       setting \in RecipientSettings :
        InitStore(store,
                  [id \in RuleIds |-> IF id = NumRules THEN unknown
                                      ELSE IF id = 1 THEN last
                                      ELSE QuietRule],
                  StripRecipients(setting))

NextDispatch ==
    \/ Tick
    \/ CheckAllAlertsAgain
    \/ CheckRule
    \/ CheckAllAlertsReturn

SpecDispatch == InitDispatch /\ [][NextDispatch]_vars

-----------------------------------------------------------------------------
\* Two check_all_alerts calls side by side (two runs of the check_alerts
\* command), each statement of _trigger_alert a step of its own: the
\* database is in autocommit, so every write is visible when it is made.
\* callers[p] holds the locals of call p:
\*   pc                where the call stands
\*   window            time_window_minutes
\*   active_rules      the rules its loop has still to check
\*   metric_value      what the check handed to _trigger_alert
\*   stamp             rule.last_triggered_at of its rule object
\*   triggered_alerts  its local list (indexes into alertLogs)
\*   trace             the writes and notifier calls it has made so far
\* Every query is answered and the store is not written.

Passes == {"first", "second"}

IdlePass ==
    [pc |-> "idle", window |-> 0, active_rules |-> <<>>,
     metric_value |-> FloatZero, stamp |-> NoTime,
     triggered_alerts |-> <<>>, trace |-> <<>>]

\* active_rules = AlertRule.objects.filter(is_active=True);
\* triggered_alerts = []; the loop fetches the rules when it starts.  Both
\* calls are given a window of two minutes.
PassStart(p) ==
    /\ callers[p].pc = "idle"
    /\ \E time_window_minutes \in {2} :
        callers' = [callers EXCEPT
                      ![p] = [IdlePass EXCEPT
                                !.pc = "loop",
                                !.window = time_window_minutes,
                                !.active_rules =
                                    ActiveRules(rules, NumRules)]]
    /\ UNCHANGED << now, logs, rules, alertLogs, email_recipients, pc, window,
                    active_rules, triggered_alerts, result, notifyCalls,
                    outbox, response, lastCheck, otps, requests >>

\* for rule in active_rules: alert_log = self._check_rule(...), up to the
\* call of _trigger_alert
PassCheck(p) ==
    /\ callers[p].pc = "loop"
    /\ callers[p].active_rules # <<>>
    /\ LET id   == Head(callers[p].active_rules)
           rule == rules[id]
       IN  \E t2 \in SecondRead(rule, callers[p].window, logs, now) :
           \E r \in {CheckRuleResult(rule, callers[p].window, logs, now,
                                      t2)} :
               /\ now' = t2
               /\ callers' =
                    [callers EXCEPT
                       ![p] = IF r.alert
                              THEN [@ EXCEPT !.pc = "create",
                                             !.metric_value = r.metric_value]
                              ELSE [@ EXCEPT !.active_rules = Tail(@)]]
    /\ UNCHANGED << logs, rules, alertLogs, email_recipients, pc, window,
                    active_rules, triggered_alerts, result, notifyCalls,
                    outbox, response, lastCheck, otps, requests >>

\* alert_log = AlertLog.objects.create(...)
PassCreate(p) ==
    /\ callers[p].pc = "create"
    /\ LET id == Head(callers[p].active_rules)
       IN  /\ alertLogs' =
                Append(alertLogs,
                       CreateAlertLog(id, callers[p].metric_value, now))
           /\ callers' =
                [callers EXCEPT
                   ![p] = [@ EXCEPT !.pc = "stamp",
                                    !.trace = Append(@, <<"create", id>>)]]
    /\ UNCHANGED << now, logs, rules, email_recipients, pc, window,
                    active_rules, triggered_alerts, result, notifyCalls,
                    outbox, response, lastCheck, otps, requests >>

\* rule.last_triggered_at = timezone.now()
PassStamp(p) ==
    /\ callers[p].pc = "stamp"
    /\ callers' = [callers EXCEPT ![p] = [@ EXCEPT !.pc = "save",
                                                   !.stamp = now]]
    /\ UNCHANGED << now, logs, rules, alertLogs, email_recipients, pc, window,
                    active_rules, triggered_alerts, result, notifyCalls,
                    outbox, response, lastCheck, otps, requests >>

\* rule.save(update_fields=['last_triggered_at'])
PassSave(p) ==
    /\ callers[p].pc = "save"
    /\ LET id == Head(callers[p].active_rules)
       IN  /\ rules' = StampRule(rules, id, callers[p].stamp)
           /\ callers' =
                [callers EXCEPT
                   ![p] = [@ EXCEPT !.pc = "notify",
                                    !.trace = Append(@, <<"save", id>>)]]
    /\ UNCHANGED << now, logs, alertLogs, email_recipients, pc, window,
                    active_rules, triggered_alerts, result, notifyCalls,
                    outbox, response, lastCheck, otps, requests >>

\* if rule.notify_email and self.email_recipients:
\*     self._send_email_notification(rule, message)
\* return alert_log; triggered_alerts.append(alert_log)
PassNotify(p) ==
    /\ callers[p].pc = "notify"
    /\ LET id == Head(callers[p].active_rules)
       IN  \E mail_ok \in BOOLEAN :
           \E mail \in {IF ShouldNotify(rules[id], email_recipients)
                        THEN SendEmailNotification(mail_ok)
                        ELSE "skipped"} :
               /\ notifyCalls' = IF mail = "skipped" THEN notifyCalls
                                 ELSE Append(notifyCalls, id)
               /\ outbox' = IF mail = "True" THEN Append(outbox, id)
                            ELSE outbox
               /\ callers' =
                    [callers EXCEPT
                       ![p] = [@ EXCEPT
                                 !.pc = "loop",
                                 !.active_rules = Tail(@),
                                 !.triggered_alerts =
                                     Append(@, CHOOSE i \in DOMAIN alertLogs :
                                                 /\ alertLogs[i].alert_rule = id
                                                 /\ \A j \in DOMAIN alertLogs :
                                                      alertLogs[j].alert_rule = id
                                                          => j <= i),
                                 !.trace = IF mail = "skipped" THEN @
                                           ELSE Append(@, <<"notify", id>>)]]
    /\ UNCHANGED << now, logs, rules, alertLogs, email_recipients, pc, window,
                    active_rules, triggered_alerts, result, response,
                    lastCheck, otps, requests >>

\* return triggered_alerts
PassReturn(p) ==
    /\ callers[p].pc = "loop"
    /\ callers[p].active_rules = <<>>
    /\ callers' = [callers EXCEPT ![p] = [@ EXCEPT !.pc = "returned"]]
    /\ UNCHANGED << now, logs, rules, alertLogs, email_recipients, pc, window,
                    active_rules, triggered_alerts, result, notifyCalls,
                    outbox, response, lastCheck, otps, requests >>

\* rules 1 and 2 are active and fire on any row of their window, the others
\* are inactive; the table holds no row or one error row
InitOverlap ==
    \E store \in {<<>>, <<LogRow(0, "error", 3, 0)>>},
       setting \in RecipientSettings :
        /\ now = 0
        /\ logs = store
        /\ rules = [id \in RuleIds |->
                        IF id \in {1, 2} THEN [QuietRule EXCEPT !.is_active = TRUE]
                        ELSE QuietRule]
        /\ alertLogs = <<>>
        /\ email_recipients = StripRecipients(setting)
        /\ pc = "idle"
        /\ window = 0
        /\ active_rules = <<>>
        /\ triggered_alerts = <<>>
        /\ result = <<>>
        /\ notifyCalls = <<>>
        /\ outbox = <<>>
        /\ response = NoResponse
        /\ lastCheck = NoCheck
        /\ callers = [p \in Passes |-> IdlePass]
        /\ otps = <<>>
        /\ requests = <<>>

NextOverlap ==
    \/ Tick
    \/ \E p \in Passes : PassStart(p)
    \/ \E p \in Passes : PassCheck(p)
    \/ \E p \in Passes : PassCreate(p)
    \/ \E p \in Passes : PassStamp(p)
    \/ \E p \in Passes : PassSave(p)
    \/ \E p \in Passes : PassNotify(p)
    \/ \E p \in Passes : PassReturn(p)

SpecOverlap == InitOverlap /\ [][NextOverlap]_vars

-----------------------------------------------------------------------------
\* create_default_rules, called by two runs of check_alerts
\* --create-defaults that may overlap.  Here rules is the AlertRule table in
\* insertion order, each row with its name.  callers[c] holds the locals of
\* call c:
\*   pc             where the call stands
\*   defaults       the entries of defaults its loop has still to take
\*   created_rules  its local list (indexes into rules)

DefaultCalls == {"first", "second"}

\* the list defaults; the thresholds come from the settings
Defaults ==
    << [name |-> "High Error Rate", metric_type |-> "error_rate",
        threshold |-> 2],
       [name |-> "High Latency", metric_type |-> "latency", threshold |-> 2],
       [name |-> "Token Usage Spike", metric_type |-> "token_spike",
        threshold |-> 2] >>

\* the row AlertRule.objects.create(**rule_data) inserts: the other columns
\* take their defaults
NewRule(rule_data) ==
    [name |-> rule_data.name, metric_type |-> rule_data.metric_type,
     threshold |-> rule_data.threshold, is_active |-> TRUE,
     notify_email |-> FALSE, last_triggered_at |-> NoTime]

\* the rows filter(name=name) finds
Named(table, name) == {i \in DOMAIN table : table[i].name = name}

IdleCall == [pc |-> "idle", defaults |-> <<>>, created_rules |-> <<>>]

\* created_rules = []; defaults = [...]
DefaultsStart(c) ==
    /\ callers[c].pc = "idle"
    /\ callers' = [callers EXCEPT ![c] = [IdleCall EXCEPT
                                             !.pc = "get",
                                             !.defaults = Defaults]]
    /\ UNCHANGED << now, logs, rules, alertLogs, email_recipients, pc, window,
                    active_rules, triggered_alerts, result, notifyCalls,
                    outbox, response, lastCheck, otps, requests >>

\* get_or_create, first half: self.get(name=rule_data['name']).  One row:
\* created is False and the loop goes on; no row: the call goes on to
\* create; several rows: MultipleObjectsReturned leaves the call.
DefaultsGet(c) ==
    /\ callers[c].pc = "get"
    /\ callers[c].defaults # <<>>
    /\ LET found == Named(rules, Head(callers[c].defaults).name)
       IN  callers' =
               [callers EXCEPT
                  ![c] = IF found = {} THEN [@ EXCEPT !.pc = "create"]
                         ELSE IF Cardinality(found) = 1
                              THEN [@ EXCEPT !.defaults = Tail(@)]
                         ELSE [@ EXCEPT !.pc = "raised"]]
    /\ UNCHANGED << now, logs, rules, alertLogs, email_recipients, pc, window,
                    active_rules, triggered_alerts, result, notifyCalls,
                    outbox, response, lastCheck, otps, requests >>

\* get_or_create, second half: self.create(**params); created is True and
\* created_rules.append(rule)
DefaultsCreate(c) ==
    /\ callers[c].pc = "create"
    /\ rules' = Append(rules, NewRule(Head(callers[c].defaults)))
    /\ callers' =
         [callers EXCEPT
            ![c] = [@ EXCEPT !.pc = "get",
                             !.defaults = Tail(@),
                             !.created_rules = Append(@, Len(rules) + 1)]]
    /\ UNCHANGED << now, logs, alertLogs, email_recipients, pc, window,
                    active_rules, triggered_alerts, result, notifyCalls,
                    outbox, response, lastCheck, otps, requests >>

\* return created_rules
DefaultsReturn(c) ==
    /\ callers[c].pc = "get"
    /\ callers[c].defaults = <<>>
    /\ callers' = [callers EXCEPT ![c] = [@ EXCEPT !.pc = "returned"]]
    /\ UNCHANGED << now, logs, rules, alertLogs, email_recipients, pc, window,
                    active_rules, triggered_alerts, result, notifyCalls,
                    outbox, response, lastCheck, otps, requests >>

\* the tables the calls may find: any of the default rules may be there
\* already, as the operator has set it
InitDefaults ==
    \E present \in [1..Len(Defaults) -> BOOLEAN], is_active \in BOOLEAN :
        /\ now = 0
        /\ logs = <<>>
        /\ rules = [i \in 1..Len(SelectSeq(<<1, 2, 3>>,
                                            LAMBDA k : present[k])) |->
                       [NewRule(Defaults[SelectSeq(<<1, 2, 3>>,
                                                   LAMBDA k : present[k])[i]])
                           EXCEPT !.is_active = is_active, !.threshold = 0]]
        /\ alertLogs = <<>>
        /\ email_recipients = <<>>
        /\ pc = "idle"
        /\ window = 0
        /\ active_rules = <<>>
        /\ triggered_alerts = <<>>
        /\ result = <<>>
        /\ notifyCalls = <<>>
        /\ outbox = <<>>
        /\ response = NoResponse
        /\ lastCheck = NoCheck
        /\ callers = [c \in DefaultCalls |-> IdleCall]
        /\ otps = <<>>
        /\ requests = <<>>

NextDefaults ==
    \/ \E c \in DefaultCalls : DefaultsStart(c)
    \/ \E c \in DefaultCalls : DefaultsGet(c)
    \/ \E c \in DefaultCalls : DefaultsCreate(c)
    \/ \E c \in DefaultCalls : DefaultsReturn(c)

SpecDefaults == InitDefaults /\ [][NextDefaults]_vars

-----------------------------------------------------------------------------
\* The OTP endpoints.  An EmailOTP row is
\*   [email, otp_code, created_at, is_verified, attempts].
\* requests records, for every verify_otp_api request answered, the email
\* and code submitted, the row that was the email's pending OTP when the
\* request came in (0 if it had none) and whether the answer was a success.

MaxOtps == 2
MaxRequests == 4

Emails == {"a@x.io", "b@x.io"}
Codes == {"111111", "222222"}

ExpiryMinutes == 10

\* EmailOTP.is_expired
is_expired(otp, t) == t > otp.created_at + ExpiryMinutes

\* EmailOTP.can_attempt
can_attempt(otp, t) == otp.attempts < 3 /\ ~is_expired(otp, t)

\* the rows filter(**kwargs).latest('created_at') chooses from: the
\* matching rows with the greatest created_at
Latest(table, matching) ==
    {i \in matching : \A j \in matching :
                         table[j].created_at <= table[i].created_at}

\* the email's unverified rows
Pending(table, email) ==
    {i \in DOMAIN table : table[i].email = email /\ ~table[i].is_verified}

\* EmailOTP.create_otp: the old unverified rows of the email are marked
\* verified, then a row with a fresh code is inserted
create_otp(table, email, otp_code, t) ==
    Append([i \in DOMAIN table |->
               IF i \in Pending(table, email)
               THEN [table[i] EXCEPT !.is_verified = TRUE]
               ELSE table[i]],
           [email |-> email, otp_code |-> otp_code, created_at |-> t,
            is_verified |-> FALSE, attempts |-> 0])

\* send_otp_api: the OTP is created, then mailed; send_mail may raise
send_otp_api ==
    /\ Len(otps) < MaxOtps
    /\ \E email \in Emails, otp_code \in Codes, mail \in {"sent", "raises"} :
          /\ otps' = create_otp(otps, email, otp_code, now)
          /\ outbox' = IF mail = "sent"
                       THEN Append(outbox, [to |-> email,
                                            otp_code |-> otp_code])
                       ELSE outbox
          /\ response' = [op |-> "send_otp",
                          status |-> IF mail = "sent" THEN 200 ELSE 500]
    /\ UNCHANGED << now, logs, rules, alertLogs, email_recipients, pc, window,
                    active_rules, triggered_alerts, result, notifyCalls,
                    lastCheck, callers, requests >>

\* verify_otp_api with both fields given.  The row is looked up by email
\* AND the submitted code; no such row is DoesNotExist, answered 400 with
\* no row touched.  Else can_attempt is asked, attempts is incremented and
\* saved, and the row (whose code is the submitted one) is marked verified
\* unless it has expired.
verify_otp_api ==
    /\ Len(requests) < MaxRequests
    /\ \E email \in Emails, otp_code \in Codes :
          LET matching == {i \in Pending(otps, email) :
                              otps[i].otp_code = otp_code}
              pending  == IF Pending(otps, email) = {} THEN 0
                          ELSE CHOOSE i \in Latest(otps, Pending(otps, email)) :
                                   \A j \in Latest(otps, Pending(otps, email)) :
                                       j <= i
              Answer(ok) == /\ requests' = Append(requests,
                                                  [email |-> email,
                                                   otp_code |-> otp_code,
                                                   pending |-> pending,
                                                   ok |-> ok])
                            /\ response' = [op |-> "verify_otp",
                                            status |-> IF ok THEN 200
                                                       ELSE 400]
          IN  IF matching = {}
              THEN Answer(FALSE) /\ otps' = otps
              ELSE \E i \in Latest(otps, matching) :
                     IF ~can_attempt(otps[i], now)
                     THEN Answer(FALSE) /\ otps' = otps
                     ELSE IF otps[i].otp_code = otp_code
                             /\ ~is_expired(otps[i], now)
                          THEN /\ Answer(TRUE)
                               /\ otps' = [otps EXCEPT
                                              ![i].attempts = @ + 1,
                                              ![i].is_verified = TRUE]
                          ELSE /\ Answer(FALSE)
                               /\ otps' = [otps EXCEPT ![i].attempts = @ + 1]
    /\ UNCHANGED << now, logs, rules, alertLogs, email_recipients, pc, window,
                    active_rules, triggered_alerts, result, notifyCalls,
                    outbox, lastCheck, callers >>

\* no OTP yet, or one issued nine minutes ago and still pending
InitOtp ==
    /\ now = 0
    /\ logs = <<>>
    /\ rules = [i \in 1..NumRules |-> QuietRule]
    /\ alertLogs = <<>>
    /\ email_recipients = <<>>
    /\ pc = "idle"
    /\ window = 0
    /\ active_rules = <<>>
    /\ triggered_alerts = <<>>
    /\ result = <<>>
    /\ notifyCalls = <<>>
    /\ outbox = <<>>
    /\ response = NoResponse
    /\ lastCheck = NoCheck
    /\ callers = <<>>
    /\ \E email \in Emails, otp_code \in Codes :
          otps \in {<<>>, <<[email |-> email, otp_code |-> otp_code,
                             created_at |-> 0 - 9, is_verified |-> FALSE,
                             attempts |-> 0]>>}
    /\ requests = <<>>

NextOtp == Tick \/ send_otp_api \/ verify_otp_api

SpecOtp == InitOtp /\ [][NextOtp]_vars

-----------------------------------------------------------------------------
\* The operator's requests on alert rules and alert logs, between passes.

\* the row of a rule that has been deleted
DeletedRule ==
    [metric_type |-> "deleted", threshold |-> 0, is_active |-> FALSE,
     notify_email |-> FALSE, last_triggered_at |-> NoTime]

\* the bodies the operator posts: the serializer's writable fields, with
\* last_triggered_at left at the column's default
OperatorRules ==
    [ metric_type : {"error_rate"}, threshold : {0},
      is_active : {TRUE}, notify_email : BOOLEAN,
      last_triggered_at : {NoTime} ]

\* alert_log.acknowledged = True; alert_log.acknowledged_at = timezone.now()
Acknowledge(alert, t) ==
    [alert EXCEPT !.acknowledged = TRUE, !.acknowledged_at = t]

\* the rows left after deleting rule id: on_delete=models.CASCADE
Cascade(alerts, id) == SelectSeq(alerts, LAMBDA a : a.alert_rule # id)

\* POST /alerts/logs/<alert_id>/acknowledge/ for an alert that exists
AlertLogAcknowledgeView ==
    /\ pc # "running"
    /\ \E i \in 1..Len(alertLogs) :
        /\ alertLogs' =
             [alertLogs EXCEPT ![i] = Acknowledge(alertLogs[i], now)]
        /\ response' = [op |-> "acknowledge"]
    /\ UNCHANGED << now, logs, rules, email_recipients, pc, window,
                    active_rules, triggered_alerts, result, notifyCalls,
                    outbox, lastCheck >>
    /\ UNCHANGED << callers, otps, requests >>

\* the admin action on a selection of alert logs:
\* queryset.update(acknowledged=True, acknowledged_at=timezone.now())
acknowledge_alerts ==
    /\ pc # "running"
    /\ \E queryset \in SUBSET (1..Len(alertLogs)) :
        /\ queryset # {}
        /\ alertLogs' =
             [i \in 1..Len(alertLogs) |->
                 IF i \in queryset THEN Acknowledge(alertLogs[i], now)
                 ELSE alertLogs[i]]
        /\ response' = [op |-> "acknowledge_alerts"]
    /\ UNCHANGED << now, logs, rules, email_recipients, pc, window,
                    active_rules, triggered_alerts, result, notifyCalls,
                    outbox, lastCheck >>
    /\ UNCHANGED << callers, otps, requests >>

\* POST /alerts/rules/: ModelViewSet.create
AlertRuleCreate ==
    /\ pc # "running"
    /\ \E id \in RuleIds, rule \in OperatorRules :
        /\ rules[id] = DeletedRule
        /\ rules' = [rules EXCEPT ![id] = rule]
        /\ response' = [op |-> "create rule"]
    /\ UNCHANGED << now, logs, alertLogs, email_recipients, pc, window,
                    active_rules, triggered_alerts, result, notifyCalls,
                    outbox, lastCheck >>
    /\ UNCHANGED << callers, otps, requests >>

\* PATCH /alerts/rules/<id>/ with is_active: ModelViewSet.partial_update;
\* last_triggered_at is read-only in the serializer
AlertRuleUpdate ==
    /\ pc # "running"
    /\ \E id \in RuleIds, is_active \in BOOLEAN :
        /\ rules[id] # DeletedRule
        /\ rules[id].is_active # is_active
        /\ rules' = [rules EXCEPT ![id].is_active = is_active]
        /\ response' = [op |-> "update rule"]
    /\ UNCHANGED << now, logs, alertLogs, email_recipients, pc, window,
                    active_rules, triggered_alerts, result, notifyCalls,
                    outbox, lastCheck >>
    /\ UNCHANGED << callers, otps, requests >>

\* DELETE /alerts/rules/<id>/: ModelViewSet.destroy; the rule's alert logs
\* go with it.  The list the last pass returned is held by its caller and
\* is left as it was.
AlertRuleDestroy ==
    /\ pc # "running"
    /\ \E id \in RuleIds :
        /\ rules[id] # DeletedRule
        /\ rules' = [rules EXCEPT ![id] = DeletedRule]
        /\ alertLogs' = Cascade(alertLogs, id)
        /\ response' = [op |-> "destroy rule"]
    /\ UNCHANGED << now, logs, email_recipients, pc, window, active_rules,
                    triggered_alerts, result, notifyCalls, outbox,
                    lastCheck >>
    /\ UNCHANGED << callers, otps, requests >>

\* one rule that fires on any error row, no recipients configured
InitOperator ==
    \E store \in PassStores, rule \in OperatorRules :
        InitStore(store,
                  [id \in RuleIds |-> IF id = 1 THEN rule ELSE QuietRule],
                  <<>>)

NextOperator ==
    \/ Tick
    \/ CheckAllAlertsAgain
    \/ CheckRule
    \/ CheckAllAlertsReturn
    \/ AlertLogAcknowledgeView
    \/ acknowledge_alerts
    \/ AlertRuleCreate
    \/ AlertRuleUpdate
    \/ AlertRuleDestroy

SpecOperator == InitOperator /\ [][NextOperator]_vars

(***************************************************************************)
(* The P95 computations on large samples: the store holds up to MaxSample  *)
(* rows, a latency rule of threshold 0 is the only active rule, and the    *)
(* two metrics queries and the alert check read the same rows.             *)
(***************************************************************************)
MaxSample == 21

Rows(n, status, latency_ms) ==
    [i \in 1..n |-> LogRow(0, status, latency_ms, 1)]

OneRule(metric_type, threshold) ==
    [id \in RuleIds |->
        IF id = 1
        THEN [metric_type |-> metric_type, threshold |-> threshold,
              is_active |-> TRUE, notify_email |-> FALSE,
              last_triggered_at |-> NoTime]
        ELSE QuietRule]

InitP95 ==
    \E n1 \in 0..MaxSample, n2 \in 0..MaxSample, n3 \in 0..2,
       s3 \in {"success", "error"} :
        /\ n1 + n2 + n3 \in 1..MaxSample
        /\ InitStore(Rows(n3, s3, 3) \o Rows(n1, "success", 1)
                         \o Rows(n2, "success", 2),
                     OneRule("latency", 0), <<>>)

NextP95 ==
    \/ GetOverviewMetrics
    \/ GetLatencyMetrics
    \/ CheckAllAlerts
    \/ CheckRule
    \/ CheckAllAlertsReturn

SpecP95 == InitP95 /\ [][NextP95]_vars

(***************************************************************************)
(* The error-rate check on large windows: up to MaxRows rows, all in the   *)
(* window, and an error_rate rule is the only active rule.                 *)
(***************************************************************************)
MaxRows == 100

RateThresholds == {5, 10, 58}

InitErrorRate ==
    \E total \in 1..MaxRows, threshold \in RateThresholds :
        \E errors \in 0..total :
            InitStore(Rows(errors, "error", 3)
                          \o Rows(total - errors, "success", 1),
                      OneRule("error_rate", threshold), <<>>)

NextErrorRate ==
    \/ CheckAllAlerts
    \/ CheckRule
    \/ CheckAllAlertsReturn

SpecErrorRate == InitErrorRate /\ [][NextErrorRate]_vars

(***************************************************************************)
(* The HTTP views and the LLM wrapper: records carry the user they were    *)
(* written for and the token counts, requests come from callers.           *)
(***************************************************************************)
MaxRecords == 1

\* Python's None where a string is expected
NoUser == "None"

\* if user_id:
Truthy(user_id) == user_id \notin {NoUser, ""}

\* request.user as the views see it: anonymous, or a logged-in user
Callers ==
    { [is_authenticated |-> FALSE, email |-> ""],
      [is_authenticated |-> TRUE, email |-> "a@example.com"],
      [is_authenticated |-> TRUE, email |-> "b@example.com"] }

\* UserIDMiddleware.__call__: request.user_id
RequestUserId(user) == IF user.is_authenticated THEN user.email ELSE NoUser

\* the fields of LLMRequestLog the model follows
RequestLog(t, user_id, status, error_type, prompt_tokens, completion_tokens, total_tokens, latency_ms) ==
    [timestamp |-> t, user_id |-> user_id, model_name |-> "llama",
     status |-> status, error_type |-> error_type,
     prompt_tokens |-> prompt_tokens,
     completion_tokens |-> completion_tokens,
     total_tokens |-> total_tokens, latency_ms |-> latency_ms]

\* filter(user_id=user_id)
FilterUser(queryset, user_id) ==
    SelectSeq(queryset, LAMBDA r : r.user_id = user_id)

\* get_overview_metrics(user_id=...), no other filter
OverviewMetricsFor(store, user_id) ==
    OverviewMetrics(IF Truthy(user_id)
                    THEN FilterUser(store, user_id)
                    ELSE store)

\* get_latency_metrics(user_id=...), no other filter
LatencyMetricsFor(store, user_id) ==
    LatencyMetrics(IF Truthy(user_id)
                   THEN FilterUser(store, user_id)
                   ELSE store)

\* MetricsOverviewView.get
MetricsOverviewView ==
    /\ \E user \in Callers :
           response' =
               [op |-> "MetricsOverviewView", user |-> user,
                data |-> OverviewMetricsFor(logs, RequestUserId(user))]
    /\ lastCheck' = NoCheck
    /\ UNCHANGED << now, logs, rules, alertLogs, email_recipients, pc, window,
                    active_rules, triggered_alerts, result, notifyCalls,
                    outbox >>
    /\ UNCHANGED << callers, otps, requests >>

\* LatencyMetricsView.get
LatencyMetricsView ==
    /\ \E user \in Callers :
           response' =
               [op |-> "LatencyMetricsView", user |-> user,
                data |-> LatencyMetricsFor(logs, RequestUserId(user))]
    /\ lastCheck' = NoCheck
    /\ UNCHANGED << now, logs, rules, alertLogs, email_recipients, pc, window,
                    active_rules, triggered_alerts, result, notifyCalls,
                    outbox >>
    /\ UNCHANGED << callers, otps, requests >>

\* ExportJSONView.get with include_analytics=true: export_data['analytics']
\* ['overview']; the logs, model_usage and error_breakdown are not modelled
ExportJSONView ==
    /\ \E user \in Callers :
           response' =
               [op |-> "ExportJSONView", user |-> user,
                data |-> OverviewMetricsFor(logs, NoUser)]
    /\ lastCheck' = NoCheck
    /\ UNCHANGED << now, logs, rules, alertLogs, email_recipients, pc, window,
                    active_rules, triggered_alerts, result, notifyCalls,
                    outbox >>
    /\ UNCHANGED << callers, otps, requests >>

\* LLMRequestLog.save storing the row as it is
SaveModelAsGiven(row) == row

\* LLMRequestLog.save: total_tokens is computed when it is 0
SaveModel(row) ==
    IF row.total_tokens = 0
    THEN [row EXCEPT !.total_tokens = row.prompt_tokens + row.completion_tokens]
    ELSE row

\* usage.total_tokens missing from the provider's reply
Absent == -1

\* what requests.post does: a reply (status code, whether the error message
\* mentions a timeout, whether the body of a 200 has 'choices', the usage
\* counts) or an exception
ProviderReplies ==
    [kind : {"reply"}, status_code : {200}, timeout_text : {FALSE},
     well_formed : BOOLEAN, prompt_tokens : {1},
     completion_tokens : {0, 2}, total_tokens : {Absent, 0, 5}]
    \cup
    [kind : {"reply"}, status_code : {400, 401, 404, 408, 429, 500},
     timeout_text : BOOLEAN, well_formed : {TRUE}, prompt_tokens : {0},
     completion_tokens : {0}, total_tokens : {Absent}]
    \cup
    [kind : {"Timeout", "RequestException", "Exception"}, status_code : {0},
     timeout_text : {FALSE}, well_formed : {TRUE}, prompt_tokens : {0},
     completion_tokens : {0}, total_tokens : {Absent}]

\* _map_error_type returning 'none' for the codes it does not know
MapErrorTypeNone(status_code, timeout_text) ==
    IF status_code = 401 THEN "authentication"
    ELSE IF status_code = 429 THEN "rate_limit"
    ELSE IF status_code = 408 \/ timeout_text THEN "timeout"
    ELSE IF status_code = 400 THEN "invalid_prompt"
    ELSE IF status_code >= 500 THEN "provider_error"
    ELSE "none"

\* _map_error_type; timeout_text: 'timeout' in error_message.lower()
MapErrorType(status_code, timeout_text) ==
    IF status_code = 401 THEN "authentication"
    ELSE IF status_code = 429 THEN "rate_limit"
    ELSE IF status_code = 408 \/ timeout_text THEN "timeout"
    ELSE IF status_code = 400 THEN "invalid_prompt"
    ELSE IF status_code >= 500 THEN "provider_error"
    ELSE "unknown"

\* the log_data of a failed call: the token counts keep their initial 0
ErrorLogData(t, user_id, error_type, latency_ms) ==
    RequestLog(t, user_id, "error", error_type, 0, 0, 0, latency_ms)

\* what a call of complete hands to _save_log (in order), and what it
\* raises ("none": it returns)
CompleteOutcome(t, user_id, api_key, reply, latency_ms) ==
    IF ~api_key
    THEN \* raised inside the try, re-raised by `except GroqAPIError`
         [saves |-> <<>>, raises |-> "authentication"]
    ELSE IF reply.kind = "Timeout"
    THEN [saves |-> <<ErrorLogData(t, user_id, "timeout", latency_ms)>>,
          raises |-> "timeout"]
    ELSE IF reply.kind = "RequestException"
    THEN [saves |-> <<ErrorLogData(t, user_id, "network", latency_ms)>>,
          raises |-> "network"]
    ELSE IF reply.kind = "Exception"
    THEN [saves |-> <<ErrorLogData(t, user_id, "unknown", latency_ms)>>,
          raises |-> "unknown"]
    ELSE IF reply.status_code # 200
    THEN LET error_type == MapErrorType(reply.status_code,
                                        reply.timeout_text)
         IN  [saves |-> <<ErrorLogData(t, user_id, error_type, latency_ms)>>,
              raises |-> error_type]
    ELSE IF ~reply.well_formed
    THEN \* data['choices'] raises, caught by `except Exception`
         [saves |-> <<ErrorLogData(t, user_id, "unknown", latency_ms)>>,
          raises |-> "unknown"]
    ELSE LET prompt_tokens     == reply.prompt_tokens
             completion_tokens == reply.completion_tokens
             total_tokens      ==
                 IF reply.total_tokens = Absent
                 THEN prompt_tokens + completion_tokens
                 ELSE reply.total_tokens
         IN  [saves |-> <<RequestLog(t, user_id, "success", "none",
                                     prompt_tokens, completion_tokens,
                                     total_tokens, latency_ms)>>,
              raises |-> "none"]

\* _save_log for each entry of saves: objects.create, which runs save();
\* save_ok: the store takes the row (else the failure is logged and dropped)
RECURSIVE SaveLogs(_, _, _)
SaveLogs(store, saves, save_ok) ==
    IF saves = <<>> THEN store
    ELSE SaveLogs(IF save_ok THEN Append(store, SaveModel(Head(saves)))
                  ELSE store,
                  Tail(saves), save_ok)

\* LLMPromptView.post -> GroqLLMService.complete
Complete ==
    /\ Len(logs) < MaxRecords
    /\ \E user \in Callers, api_key \in BOOLEAN, reply \in ProviderReplies,
          latency_ms \in {1}, save_ok \in BOOLEAN :
           \E outcome \in {CompleteOutcome(now, RequestUserId(user), api_key,
                                           reply, latency_ms)} :
               /\ logs' = SaveLogs(logs, outcome.saves, save_ok)
               /\ response' = [op |-> "complete", raises |-> outcome.raises,
                               usage_total |-> reply.total_tokens]
    /\ lastCheck' = NoCheck
    /\ UNCHANGED << now, rules, alertLogs, email_recipients, pc, window,
                    active_rules, triggered_alerts, result, notifyCalls,
                    outbox >>
    /\ UNCHANGED << callers, otps, requests >>

\* the admin's add form for LLMRequestLog: ModelAdmin saves the object with
\* the token counts typed in (total_tokens left at its default 0, or typed)
AdminAddLog ==
    /\ Len(logs) < MaxRecords
    /\ \E prompt_tokens \in {1}, completion_tokens \in {0, 2},
          total_tokens \in {0, 5} :
           /\ logs' = Append(logs,
                             SaveModel(RequestLog(now, NoUser, "success",
                                                  "none", prompt_tokens,
                                                  completion_tokens,
                                                  total_tokens, 1)))
           /\ response' = [op |-> "admin add", raises |-> "none",
                           usage_total |-> total_tokens]
    /\ lastCheck' = NoCheck
    /\ UNCHANGED << now, rules, alertLogs, email_recipients, pc, window,
                    active_rules, triggered_alerts, result, notifyCalls,
                    outbox >>
    /\ UNCHANGED << callers, otps, requests >>

\* generate_sample_data --count 1 [--clear]: one row built with its total
\* and written by bulk_create, which does not run save()
GenerateSampleData ==
    \E clear \in BOOLEAN, is_error \in BOOLEAN,
       user_id \in {"user_001", NoUser} :
        LET kept              == IF clear THEN <<>> ELSE logs
            prompt_tokens     == 1
            completion_tokens == IF is_error THEN 0 ELSE 2
            total_tokens      == prompt_tokens + completion_tokens
        IN  /\ Len(kept) < MaxRecords
            /\ logs' = Append(kept,
                              RequestLog(now, user_id,
                                         IF is_error THEN "error"
                                         ELSE "success",
                                         IF is_error THEN "timeout"
                                         ELSE "none",
                                         prompt_tokens, completion_tokens,
                                         total_tokens, 1))
            /\ response' = [op |-> "generate_sample_data",
                            raises |-> "none", usage_total |-> total_tokens]
            /\ lastCheck' = NoCheck
            /\ UNCHANGED << now, rules, alertLogs, email_recipients, pc,
                            window, active_rules, triggered_alerts, result,
                            notifyCalls, outbox >>
            /\ UNCHANGED << callers, otps, requests >>

InitService ==
    InitStore(<<>>, [id \in RuleIds |-> QuietRule], <<>>)

NextService ==
    \/ Complete
    \/ AdminAddLog
    \/ GenerateSampleData
    \/ MetricsOverviewView
    \/ LatencyMetricsView
    \/ ExportJSONView

SpecService == InitService /\ [][NextService]_vars

(***************************************************************************)
(* MetricsService with a time range.  The store is drawn at the start and  *)
(* not written; each query answers into response.  Stamps are minutes: 0   *)
(* and 59 lie in the first hour, 60 opens the second, and all lie in one   *)
(* day.  The model and user filters are left at None.  An answer depends   *)
(* on the table and the arguments alone, so a behaviour asks one query.     *)
(***************************************************************************)
MaxStore == 3

Stamps == {0, 59, 60}

MetricKinds ==
    { [model_name |-> "llama", status |-> "success", error_type |-> "none",
       latency_ms |-> 1, prompt_tokens |-> 1, completion_tokens |-> 1,
       total_tokens |-> 2],
      [model_name |-> "mixtral", status |-> "success", error_type |-> "none",
       latency_ms |-> 3, prompt_tokens |-> 2, completion_tokens |-> 1,
       total_tokens |-> 3],
      [model_name |-> "llama", status |-> "error", error_type |-> "timeout",
       latency_ms |-> 2, prompt_tokens |-> 4, completion_tokens |-> 0,
       total_tokens |-> 4] }

ErrorKinds ==
    { [model_name |-> "llama", status |-> "error", error_type |-> "timeout",
       latency_ms |-> 2, prompt_tokens |-> 0, completion_tokens |-> 0,
       total_tokens |-> 0],
      [model_name |-> "llama", status |-> "error",
       error_type |-> "rate_limit", latency_ms |-> 2, prompt_tokens |-> 0,
       completion_tokens |-> 0, total_tokens |-> 0],
      [model_name |-> "llama", status |-> "error",
       error_type |-> "api_error", latency_ms |-> 2, prompt_tokens |-> 0,
       completion_tokens |-> 0, total_tokens |-> 0],
      [model_name |-> "llama", status |-> "success", error_type |-> "none",
       latency_ms |-> 1, prompt_tokens |-> 1, completion_tokens |-> 1,
       total_tokens |-> 2] }

\* an LLMRequestLog row of the given kind made at time t
MetricRow(t, k) ==
    [timestamp |-> t, model_name |-> k.model_name, status |-> k.status,
     error_type |-> k.error_type, latency_ms |-> k.latency_ms,
     prompt_tokens |-> k.prompt_tokens,
     completion_tokens |-> k.completion_tokens,
     total_tokens |-> k.total_tokens]

\* the tables of at most MaxStore rows, in the order of their timestamps
MetricStores(kinds, stamps) ==
    LET rows == {MetricRow(t, k) : t \in stamps, k \in kinds}
    IN  { store \in UNION {[1..n -> rows] : n \in 0..MaxStore} :
            \A i \in 1..(Len(store) - 1) :
                store[i].timestamp <= store[i + 1].timestamp }

\* start_date and end_date as the callers pass them: None or a datetime
Dates == {NoTime} \cup Stamps

\* if start_date: filter(timestamp__gte=start_date)
\* if end_date: filter(timestamp__lte=end_date)
FilterDates(queryset, start_date, end_date) ==
    SelectSeq(queryset,
              LAMBDA r : /\ start_date # NoTime => r.timestamp >= start_date
                         /\ end_date # NoTime => r.timestamp <= end_date)

\* get_overview_metrics(start_date, end_date)
GetOverviewMetricsBetween ==
    /\ response = NoResponse
    /\ \E start_date \in Dates, end_date \in Dates :
        response' =
            [start_date |-> start_date, end_date |-> end_date,
             data |-> OverviewMetrics(FilterDates(logs, start_date,
                                                  end_date))]
    /\ UNCHANGED << now, logs, rules, alertLogs, email_recipients, pc, window,
                    active_rules, triggered_alerts, result, notifyCalls,
                    outbox, lastCheck >>
    /\ UNCHANGED << callers, otps, requests >>

\* the list get_latency_metrics returns: one row for each entry of models,
\* in an order the database chooses among those sorted by -timestamp
LatencyRows(queryset) ==
    LET models == DistinctModels(queryset)
    IN  { [i \in 1..Cardinality(models) |->
              LatencyRow(queryset, order[i][1])] :
          order \in { o \in [1..Cardinality(models) -> models] :
                        /\ \A i, j \in DOMAIN o : i # j => o[i] # o[j]
                        /\ \A i, j \in DOMAIN o :
                              i < j => o[i][2] >= o[j][2] } }

\* get_latency_metrics(start_date, end_date)
GetLatencyMetricsBetween ==
    /\ response = NoResponse
    /\ \E start_date \in Dates, end_date \in Dates :
        \E results \in LatencyRows(FilterDates(FilterStatus(logs, "success"),
                                               start_date, end_date)) :
            response' =
                [start_date |-> start_date, end_date |-> end_date,
                 data |-> [op |-> "latency", results |-> results]]
    /\ UNCHANGED << now, logs, rules, alertLogs, email_recipients, pc, window,
                    active_rules, triggered_alerts, result, notifyCalls,
                    outbox, lastCheck >>
    /\ UNCHANGED << callers, otps, requests >>

\* the length of a period in minutes; an unknown group_by means 'day'.
\* 'month' is not modelled.
PeriodMinutes(group_by) == IF group_by = "hour" THEN 60 ELSE 1440

\* a group_by that ignores the period: the timestamp itself
TruncNone(timestamp, group_by) == timestamp

\* TruncHour('timestamp'), TruncDay('timestamp')
Trunc(timestamp, group_by) ==
    timestamp - (timestamp % PeriodMinutes(group_by))

RECURSIVE SumField(_, _)
\* Coalesce(Sum(field), 0)
SumField(queryset, field) ==
    IF queryset = <<>> THEN 0
    ELSE Head(queryset)[field] + SumField(Tail(queryset), field)

RECURSIVE OrderBy(_)
\* order_by('period') on the periods of the groups
OrderBy(periods) ==
    IF periods = {} THEN <<>>
    ELSE LET first == CHOOSE p \in periods : \A q \in periods : p <= q
         IN  <<first>> \o OrderBy(periods \ {first})

\* annotate(period=trunc_func('timestamp')).values('period').annotate(...)
\* .order_by('period'); cost is not modelled
TokenUsageOverTime(queryset, group_by) ==
    LET periods == OrderBy({Trunc(queryset[i].timestamp, group_by) :
                                i \in 1..Len(queryset)})
        group(p) == SelectSeq(queryset,
                              LAMBDA r : Trunc(r.timestamp, group_by) = p)
    IN  [i \in 1..Len(periods) |->
            [period |-> periods[i],
             prompt_tokens |-> SumField(group(periods[i]), "prompt_tokens"),
             completion_tokens |->
                 SumField(group(periods[i]), "completion_tokens"),
             total_tokens |-> SumField(group(periods[i]), "total_tokens")]]

\* get_token_usage_over_time(start_date, end_date, group_by)
GetTokenUsageOverTime ==
    /\ response = NoResponse
    /\ \E start_date \in Dates, end_date \in Dates,
          group_by \in {"hour", "day"} :
        response' =
            [start_date |-> start_date, end_date |-> end_date,
             data |-> [op |-> "tokens", group_by |-> group_by,
                       items |-> TokenUsageOverTime(
                                     FilterDates(FilterStatus(logs, "success"),
                                                 start_date, end_date),
                                     group_by)]]
    /\ UNCHANGED << now, logs, rules, alertLogs, email_recipients, pc, window,
                    active_rules, triggered_alerts, result, notifyCalls,
                    outbox, lastCheck >>
    /\ UNCHANGED << callers, otps, requests >>

InitMetrics ==
    \E store \in MetricStores(MetricKinds, Stamps) :
        InitStore(store, [id \in RuleIds |-> QuietRule], <<>>)

NextMetrics ==
    \/ GetOverviewMetricsBetween
    \/ GetLatencyMetricsBetween
    \/ GetTokenUsageOverTime

SpecMetrics == InitMetrics /\ [][NextMetrics]_vars

\* CountOrders without the ordering: the groups in any order
CountOrdersAny(counts) ==
    { o \in [1..Cardinality(DOMAIN counts) -> DOMAIN counts] :
        \A i, j \in DOMAIN o : i # j => o[i] # o[j] }

\* order_by('-count') on the groups: the orders the database may answer in,
\* groups of equal count in either order
CountOrders(counts) ==
    { o \in [1..Cardinality(DOMAIN counts) -> DOMAIN counts] :
        /\ \A i, j \in DOMAIN o : i # j => o[i] # o[j]
        /\ \A i, j \in DOMAIN o : i < j => counts[o[i]] >= counts[o[j]] }

\* round((item['count'] / total_errors) * 100, 2) if total_errors > 0 else 0,
\* as its number of hundredths
Percentage(count, total_errors) ==
    IF total_errors > 0
    THEN Round2(FloatMulNat(FloatDivNat(count, total_errors), 100))
    ELSE 0

\* the lists get_error_metrics may return for the filtered error rows:
\* values('error_type').annotate(count=Count('request_id'))
ErrorMetrics(queryset) ==
    LET total_errors == Len(queryset)
        types  == {queryset[i].error_type : i \in 1..Len(queryset)}
        counts == [t \in types |->
                      Len(SelectSeq(queryset, LAMBDA r : r.error_type = t))]
    IN  { [i \in DOMAIN o |->
              [error_type |-> o[i], count |-> counts[o[i]],
               percentage |-> Percentage(counts[o[i]], total_errors)]] :
          o \in CountOrders(counts) }

\* get_error_metrics(start_date, end_date)
GetErrorMetrics ==
    /\ response = NoResponse
    /\ \E start_date \in Dates, end_date \in Dates :
        \E items \in ErrorMetrics(FilterDates(FilterStatus(logs, "error"),
                                              start_date, end_date)) :
            response' =
                [start_date |-> start_date, end_date |-> end_date,
                 data |-> [op |-> "errors", items |-> items]]
    /\ UNCHANGED << now, logs, rules, alertLogs, email_recipients, pc, window,
                    active_rules, triggered_alerts, result, notifyCalls,
                    outbox, lastCheck >>
    /\ UNCHANGED << callers, otps, requests >>

\* tables of error rows of three types and successful rows
InitErrors ==
    \E store \in MetricStores(ErrorKinds, {0, 60}) :
        InitStore(store, [id \in RuleIds |-> QuietRule], <<>>)

NextErrors == GetErrorMetrics \/ GetOverviewMetricsBetween

SpecErrors == InitErrors /\ [][NextErrors]_vars

(***************************************************************************)
(* Properties                                                              *)
(***************************************************************************)
\* the p-th percentile of a non-empty list of rows by rank, in exact
\* integer arithmetic: the value with at most k rows strictly below it and
\* more than k rows at or below it, k = min(floor(0.95 * n), n - 1)
SampleP95(rows) ==
    LET n == Len(rows)
        k == Min((95 * n) \div 100, n - 1)
        Below(v) == Cardinality({i \in 1..n : rows[i].latency_ms < v})
        UpTo(v)  == Cardinality({i \in 1..n : rows[i].latency_ms <= v})
    IN  CHOOSE v \in {rows[i].latency_ms : i \in 1..n} :
            Below(v) <= k /\ k < UpTo(v)

\* the rows stamped in [lo, hi]
RowsBetween(lo, hi) ==
    SelectSeq(logs, LAMBDA r : lo <= r.timestamp /\ r.timestamp <= hi)

SuccessOnly(rows) == SelectSeq(rows, LAMBDA r : r.status = "success")

RECURSIVE Tokens(_)
Tokens(rows) ==
    IF rows = <<>> THEN 0
    ELSE rows[Len(rows)].total_tokens + Tokens(SubSeq(rows, 1, Len(rows) - 1))

\* the last step was a _check_rule call that returned (None or an alert)
Checked == lastCheck.outcome \in {"none", "alert"}

CheckedRule == rules[lastCheck.rule]

\* the rows of the window that call looked at
CheckedWindow == RowsBetween(lastCheck.t1 - window, lastCheck.t1)

LastAlert == alertLogs[Len(alertLogs)]

\* C1: on every non-empty sample each of the three P95 computations returns
\* the element of rank min(floor(0.95 n), n - 1) of the sorted sample: the
\* overview over all rows, the per-model row over the model's successful
\* rows, the latency check over the successful rows of its window.
C1_P95ByRank ==
    /\ (response.op = "overview" /\ logs # <<>>)
           => response.p95_latency_ms = SampleP95(logs)
    /\ response.op = "latency"
           => \A k \in DOMAIN response.rows :
                  response.rows[k].p95_latency_ms =
                      SampleP95(SelectSeq(SuccessOnly(logs),
                                          LAMBDA r : r.model_name = k[1]))
    /\ (lastCheck.outcome = "alert" /\ CheckedRule.metric_type = "latency")
           => LastAlert.metric_value =
                  FloatOfNat(SampleP95(SuccessOnly(CheckedWindow)))

\* a sample of at least 21 successful rows whose P95 (2) is below its
\* maximum (3), returned by the overview and by the latency check
C1_Witness ==
    /\ Len(SuccessOnly(logs)) >= 21
    /\ Len(SuccessOnly(logs)) = Len(logs)
    /\ \E i \in 1..Len(logs) : logs[i].latency_ms = 3
    /\ response.op = "overview"
    /\ response.p95_latency_ms = 2
    /\ lastCheck.outcome = "alert"
    /\ LastAlert.metric_value = FloatOfNat(2)

\* the rows of the period that call compared the window with: the clock
\* stands where _check_token_spike read it
PreviousRows == RowsBetween(now - 2 * window, now - window)

ErrorCount(rows) == Len(rows) - Len(SuccessOnly(rows))

\* C2: an error_rate rule evaluated over a non-empty window triggers if and
\* only if error_count / total_count * 100 >= threshold, the counts taken
\* over all rows of the window (compared exactly, cross-multiplied).
C2_ErrorRateTrigger ==
    (/\ Checked
     /\ CheckedRule.metric_type = "error_rate"
     /\ CheckedWindow # <<>>)
        => (lastCheck.outcome = "alert"
               <=> ErrorCount(CheckedWindow) * 100
                       >= CheckedRule.threshold * Len(CheckedWindow))

\* C3: a latency rule triggers if and only if its window holds a successful
\* row and the P95 of the successful rows' latencies is >= the threshold;
\* the value recorded is that P95, whatever the error rows' latencies.
C3_LatencyTrigger ==
    (Checked /\ CheckedRule.metric_type = "latency")
        => LET successes == SuccessOnly(CheckedWindow)
           IN  /\ lastCheck.outcome = "alert"
                      <=> (/\ successes # <<>>
                           /\ SampleP95(successes) >= CheckedRule.threshold)
               /\ lastCheck.outcome = "alert"
                      => LastAlert.metric_value =
                             FloatOfNat(SampleP95(successes))

\* a latency rule of threshold 2 looked at an error row of latency 3 and
\* successful rows of latency 1 only, and returned None
C3_Witness ==
    /\ lastCheck.outcome = "none"
    /\ CheckedRule.metric_type = "latency"
    /\ CheckedRule.threshold = 2
    /\ ErrorCount(CheckedWindow) > 0
    /\ SuccessOnly(CheckedWindow) # <<>>
    /\ \A i \in 1..Len(CheckedWindow) :
           CheckedWindow[i].status = "success"
               => CheckedWindow[i].latency_ms = 1

\* C4: _check_token_spike triggers if and only if current / previous >=
\* threshold when previous > 0, and current >= threshold when previous = 0;
\* the value recorded is that ratio.
C4_SpikeRatio ==
    (/\ Checked
     /\ CheckedRule.metric_type = "token_spike"
     /\ CheckedWindow # <<>>)
        => LET current  == Tokens(CheckedWindow)
               previous == Tokens(PreviousRows)
           IN  /\ lastCheck.outcome = "alert"
                      <=> IF previous > 0
                          THEN current >= CheckedRule.threshold * previous
                          ELSE current >= CheckedRule.threshold
               /\ lastCheck.outcome = "alert"
                      => LastAlert.metric_value =
                             IF previous > 0
                             THEN FloatDivNat(current, previous)
                             ELSE FloatOfNat(current)

\* no previous usage, 2 tokens in the window, threshold 2: an alert of
\* value 2
C4_Witness ==
    /\ lastCheck.outcome = "alert"
    /\ CheckedRule.metric_type = "token_spike"
    /\ CheckedRule.threshold = 2
    /\ Tokens(PreviousRows) = 0
    /\ Tokens(CheckedWindow) = 2
    /\ LastAlert.metric_value = FloatOfNat(2)

\* C5 as stated: a token_spike rule evaluated when the previous and the
\* current token sums are both 0 does not trigger, whatever its threshold.
C5_ZeroSumsNoTrigger ==
    (/\ Checked
     /\ CheckedRule.metric_type = "token_spike"
     /\ Tokens(CheckedWindow) = 0
     /\ Tokens(PreviousRows) = 0)
        => lastCheck.outcome = "none"

\* C5: a token_spike rule of threshold > 0 evaluated when the previous and
\* the current token sums are both 0 does not trigger.
C5_ZeroSumsPositiveThreshold ==
    (/\ Checked
     /\ CheckedRule.metric_type = "token_spike"
     /\ CheckedRule.threshold > 0
     /\ Tokens(CheckedWindow) = 0
     /\ Tokens(PreviousRows) = 0)
        => lastCheck.outcome = "none"

\* a token_spike rule of threshold 2 looked at a window of rows without
\* tokens, no usage before it, and returned None
C5_Witness ==
    /\ lastCheck.outcome = "none"
    /\ CheckedRule.metric_type = "token_spike"
    /\ CheckedRule.threshold = 2
    /\ CheckedWindow # <<>>
    /\ Tokens(CheckedWindow) = 0
    /\ Tokens(PreviousRows) = 0

\* the rows stamped in [lo, hi)
RowsFrom(lo, hi) ==
    SelectSeq(logs, LAMBDA r : lo <= r.timestamp /\ r.timestamp < hi)

\* C6: a token_spike evaluation at time now with window w compares the sum
\* over [now - w, now] with the sum over [now - 2w, now - w), so that no
\* row counts in both sums (evaluations during which the clock stood still).
C6_AdjacentWindows ==
    (/\ Checked
     /\ CheckedRule.metric_type = "token_spike"
     /\ CheckedWindow # <<>>
     /\ now = lastCheck.t1)
        => LET current  == Tokens(CheckedWindow)
               previous == Tokens(RowsFrom(lastCheck.t1 - 2 * window,
                                           lastCheck.t1 - window))
           IN  lastCheck.outcome = "alert"
                   <=> IF previous > 0
                       THEN current >= CheckedRule.threshold * previous
                       ELSE current >= CheckedRule.threshold

\* C7: a _check_rule call that finds no row stamped in [now - window, now]
\* returns None, whatever the rule: no alert is recorded or returned,
\* last_triggered_at stays, no notification is sent.
C7_EmptyWindowNone ==
    [][(/\ pc = "running"
        /\ lastCheck'.outcome \in {"none", "alert"}
        /\ RowsBetween(now - window, now) = <<>>)
           => /\ lastCheck'.outcome = "none"
              /\ alertLogs' = alertLogs
              /\ rules' = rules
              /\ triggered_alerts' = triggered_alerts
              /\ notifyCalls' = notifyCalls
              /\ outbox' = outbox]_vars

\* an error_rate rule of threshold 0 found the rows of the store all
\* outside its window and returned None
C7_Witness ==
    /\ lastCheck.outcome = "none"
    /\ CheckedRule.metric_type = "error_rate"
    /\ CheckedRule.threshold = 0
    /\ logs # <<>>
    /\ CheckedWindow = <<>>
    /\ alertLogs = <<>>

\* the value the checked rule's metric has on the rows of its window
ComputedMetric ==
    IF CheckedRule.metric_type = "error_rate"
    THEN ErrorRate(ErrorCount(CheckedWindow), Len(CheckedWindow))
    ELSE IF CheckedRule.metric_type = "latency"
    THEN FloatOfNat(SampleP95(SuccessOnly(CheckedWindow)))
    ELSE IF Tokens(PreviousRows) > 0
    THEN FloatDivNat(Tokens(CheckedWindow), Tokens(PreviousRows))
    ELSE FloatOfNat(Tokens(CheckedWindow))

\* after a rule has triggered, the last AlertLog is for that rule and holds
\* the metric's value
TriggerValue ==
    lastCheck.outcome = "alert"
        => /\ LastAlert.alert_rule = lastCheck.rule
           /\ LastAlert.metric_value = ComputedMetric

\* a step in which a rule triggers records exactly one AlertLog and stamps
\* the rule
TriggerRecorded ==
    /\ alertLogs' = Append(alertLogs, LastAlert')
    /\ rules' = [rules EXCEPT ![lastCheck'.rule].last_triggered_at = now']
    /\ LastAlert'.triggered_at = now'

NotifierInvoked == notifyCalls' = Append(notifyCalls, lastCheck'.rule)

\* C8 as stated: whenever a rule triggers, exactly one AlertLog for that
\* rule with the computed value is created, last_triggered_at is set, and
\* the notifier is invoked for the rule if and only if its notify flag is
\* set (otherwise it is not invoked).
C8_NotifyIffFlag ==
    /\ []TriggerValue
    /\ [][lastCheck'.outcome = "alert"
             => /\ TriggerRecorded
                /\ IF rules[lastCheck'.rule].notify_email
                   THEN NotifierInvoked
                   ELSE notifyCalls' = notifyCalls]_vars

\* C8: whenever a rule triggers, exactly one AlertLog for that rule with
\* the computed value is created, last_triggered_at is set, and the
\* notifier is invoked for the rule if and only if its notify flag is set
\* and at least one recipient is configured.
C8_NotifyIffFlagAndRecipients ==
    /\ []TriggerValue
    /\ [][lastCheck'.outcome = "alert"
             => /\ TriggerRecorded
                /\ IF /\ rules[lastCheck'.rule].notify_email
                      /\ email_recipients # <<>>
                   THEN NotifierInvoked
                   ELSE notifyCalls' = notifyCalls]_vars

\* a rule with the notify flag triggered while no recipient was configured:
\* the alert is recorded, the notifier was not invoked
C8_Witness ==
    /\ lastCheck.outcome = "alert"
    /\ CheckedRule.notify_email
    /\ email_recipients = <<>>
    /\ LastAlert.alert_rule = lastCheck.rule
    /\ CheckedRule.last_triggered_at = LastAlert.triggered_at
    /\ notifyCalls = <<>>

\* C9: when the notifier is invoked for a triggered rule and the send
\* fails, the AlertLog created for the trigger stays recorded, the rule's
\* last_triggered_at stays set, the pass goes on without an exception and
\* the alert is in the list it returns; no step removes a recorded alert.
C9_NotifierFailureKept ==
    [][/\ (/\ pc = "running"
           /\ notifyCalls' # notifyCalls
           /\ outbox' = outbox)
              => /\ alertLogs' = Append(alertLogs, LastAlert')
                 /\ LastAlert'.alert_rule = Head(active_rules)
                 /\ rules'[Head(active_rules)].last_triggered_at = now'
                 /\ triggered_alerts' =
                        Append(triggered_alerts, Len(alertLogs'))
                 /\ pc' = "running"
       /\ (pc = "running" /\ pc' = "returned")
              => result' = triggered_alerts
       /\ SubSeq(alertLogs', 1, Len(alertLogs)) = alertLogs
       /\ \A id \in RuleIds :
              rules[id].last_triggered_at # NoTime
                  => rules'[id].last_triggered_at # NoTime]_vars

\* a pass returned the alert of a rule whose notification failed to send
C9_Witness ==
    /\ pc = "returned"
    /\ result # <<>>
    /\ LET alert == alertLogs[result[Len(result)]]
       IN  /\ notifyCalls # <<>>
           /\ notifyCalls[Len(notifyCalls)] = alert.alert_rule
           /\ outbox = <<>>
           /\ rules[alert.alert_rule].last_triggered_at = alert.triggered_at

\* C10: when the evaluation of an active rule fails with an error inside a
\* check_all_alerts pass, the pass goes on with the rules left and keeps
\* the alerts it has produced for the caller.
C10_PassIsolatesFailures ==
    [][(pc = "running" /\ lastCheck'.outcome = "raised")
          => /\ pc' = "running"
             /\ active_rules' = Tail(active_rules)
             /\ triggered_alerts' = triggered_alerts]_vars

\* the rule a CheckRule step has just taken from active_rules
StepChecksRule == pc = "running" /\ lastCheck'.outcome # "no call"

\* C11: a check_all_alerts pass evaluates only active rules and does not
\* end before every active rule has been evaluated; a rule that is not
\* active gets no AlertLog, no last_triggered_at and no notification, and
\* the list returned holds the alerts created in the pass.
C11_ActiveRulesOnce ==
    [][/\ StepChecksRule => rules[lastCheck'.rule].is_active
       /\ (pc = "running" /\ pc' # "running")
              => IF StepChecksRule
                 THEN Tail(active_rules) = <<>>
                 ELSE active_rules = <<>>
       /\ \A id \in RuleIds :
              ~rules[id].is_active
                  => /\ rules'[id] = rules[id]
                     /\ alertLogs' # alertLogs
                            => LastAlert'.alert_rule # id
                     /\ notifyCalls' # notifyCalls
                            => notifyCalls'[Len(notifyCalls')] # id
       /\ (pc = "running" /\ alertLogs' # alertLogs)
              => triggered_alerts' =
                     Append(triggered_alerts, Len(alertLogs'))
       /\ (pc = "running" /\ pc' = "returned")
              => result' = triggered_alerts]_vars

\* C12: evaluating a rule again with the same clock readings, on the store
\* and the rule as the first evaluation left them, gives the trigger
\* decision and the metric value of the first evaluation.
C12_Idempotent ==
    Checked
        => \E again \in {CheckRuleResult(CheckedRule, window, logs,
                                         lastCheck.t1, now)} :
               /\ again.alert <=> lastCheck.outcome = "alert"
               /\ again.alert => again.metric_value = LastAlert.metric_value

\* a rule has triggered twice at the same time over the same store, with
\* the same value
C12_Witness ==
    /\ lastCheck.outcome = "alert"
    /\ Len(alertLogs) = 2
    /\ alertLogs[1].alert_rule = alertLogs[2].alert_rule
    /\ alertLogs[1].triggered_at = alertLogs[2].triggered_at
    /\ alertLogs[1].metric_value = alertLogs[2].metric_value
    /\ CheckedRule.metric_type = "token_spike"

\* C13: once a rule has triggered and holds a last_triggered_at, evaluating
\* it again over the same store records no further AlertLog and sends no
\* further notification for it.
C13_NoRepeatedAlert ==
    [][(/\ StepChecksRule
        /\ rules[lastCheck'.rule].last_triggered_at # NoTime)
           => /\ alertLogs' = alertLogs
              /\ notifyCalls' = notifyCalls]_vars

\* the records whose user_id is the email of the caller of the last request
OwnRecords == SelectSeq(logs, LAMBDA r : r.user_id = response.user.email)

\* C14: the metrics a view computes for a logged-in caller are the metrics
\* of the records whose user_id is that caller's: records of other users
\* do not count.
C14_TenantIsolation ==
    /\ (/\ response.op \in {"MetricsOverviewView", "ExportJSONView"}
        /\ response.user.is_authenticated)
           => response.data = OverviewMetrics(OwnRecords)
    /\ (/\ response.op = "LatencyMetricsView"
        /\ response.user.is_authenticated)
           => response.data = LatencyMetrics(OwnRecords)

\* the record the last step has written, if it has written one
NewRecord == logs'[Len(logs')]

\* C15: every call of complete, whether it returns or raises GroqAPIError,
\* creates exactly one LLMRequestLog.
C15_OneRecordPerCall ==
    [][response'.op = "complete"
          => /\ Len(logs') = Len(logs) + 1
             /\ SubSeq(logs', 1, Len(logs)) = logs]_vars

\* C16: a record written without an explicit total (the provider's usage
\* has no total_tokens or 0, the admin form leaves total_tokens at 0) is
\* stored with total_tokens = prompt_tokens + completion_tokens, by save()
\* through the wrapper's create and through a plain save; the records
\* bulk_create writes have it too.
C16_TotalIsSum ==
    [][(/\ logs' # logs
        /\ \/ response'.op = "generate_sample_data"
           \/ /\ response'.op \in {"complete", "admin add"}
              /\ response'.usage_total \in {Absent, 0})
           => NewRecord.total_tokens =
                  NewRecord.prompt_tokens + NewRecord.completion_tokens]_vars

\* the provider reported total_tokens = 0 for 1 + 2 tokens and the record
\* stored holds 3
C16_Witness ==
    /\ response.op = "complete"
    /\ response.usage_total = 0
    /\ logs # <<>>
    /\ logs[Len(logs)].prompt_tokens = 1
    /\ logs[Len(logs)].completion_tokens = 2
    /\ logs[Len(logs)].total_tokens = 3

\* C17: a record written by complete has error_type 'none' if and only if
\* its status is 'success': a call that returns stores (success, none), a
\* call that raises stores status error with the error type it raises,
\* which is not 'none'.
C17_ErrorTypeIffStatus ==
    [][(response'.op = "complete" /\ logs' # logs)
          => /\ NewRecord.error_type = "none"
                    <=> NewRecord.status = "success"
             /\ response'.raises = "none" <=> NewRecord.status = "success"
             /\ NewRecord.status \in {"success", "error"}
             /\ NewRecord.error_type = response'.raises]_vars

\* a call that raised an error of type unknown (a status code the mapping
\* has no case for, an unexpected exception) and stored an error record of
\* that type
C17_Witness ==
    /\ response.op = "complete"
    /\ response.raises = "unknown"
    /\ logs # <<>>
    /\ logs[Len(logs)].status = "error"
    /\ logs[Len(logs)].error_type = "unknown"

\* the step leaves every field of alert i as it was, the acknowledgement
\* fields aside
OtherFieldsKept(i) ==
    alertLogs'[i] =
        [alertLogs[i] EXCEPT !.acknowledged = alertLogs'[i].acknowledged,
                             !.acknowledged_at = alertLogs'[i].acknowledged_at]

\* C18: while an alert log stays in the table, no step changes any of its
\* fields other than acknowledged and acknowledged_at, and once it is
\* acknowledged no step changes those two either.
C18_AcknowledgedOnce ==
    [][Len(alertLogs') >= Len(alertLogs) =>
        \A i \in 1..Len(alertLogs) :
            /\ OtherFieldsKept(i)
            /\ alertLogs[i].acknowledged => alertLogs'[i] = alertLogs[i]]_vars

\* C19: no step removes an alert log: the table only grows, and the rows it
\* had stay where they were, the acknowledgement fields aside.
C19_AlertsNeverDeleted ==
    [][/\ Len(alertLogs') >= Len(alertLogs)
       /\ \A i \in 1..Len(alertLogs) :
            /\ alertLogs'[i].alert_rule = alertLogs[i].alert_rule
            /\ alertLogs'[i].triggered_at = alertLogs[i].triggered_at]_vars

\* C20: a turn of the loop leaves the request logs and the existing alert
\* logs as they were and changes no rule field other than last_triggered_at
\* of the rule it evaluated; when it raises an alert it appends one alert log
\* of that rule and stamps the rule, and otherwise it writes nothing.
C20_EvaluationFrame ==
    [][StepChecksRule =>
        LET id == lastCheck'.rule
        IN  /\ logs' = logs
            /\ Len(alertLogs') >= Len(alertLogs)
            /\ SubSeq(alertLogs', 1, Len(alertLogs)) = alertLogs
            /\ \A i \in RuleIds \ {id} : rules'[i] = rules[i]
            /\ rules'[id] =
                 [rules[id] EXCEPT
                    !.last_triggered_at = rules'[id].last_triggered_at]
            /\ IF lastCheck'.outcome = "alert"
               THEN /\ Len(alertLogs') = Len(alertLogs) + 1
                    /\ alertLogs'[Len(alertLogs')].alert_rule = id
                    /\ rules'[id].last_triggered_at = now'
               ELSE /\ alertLogs' = alertLogs
                    /\ rules' = rules]_vars

\* a turn has raised an alert over a store with a row in it, and the rule
\* carries the time of the alert
C20_Witness ==
    /\ lastCheck.outcome = "alert"
    /\ logs # <<>>
    /\ alertLogs # <<>>
    /\ rules[lastCheck.rule].last_triggered_at =
         alertLogs[Len(alertLogs)].triggered_at
    /\ \E i \in RuleIds : rules[i].last_triggered_at = NoTime

\* the last step was a query with a time range
Answered(op) == "data" \in DOMAIN response /\ response.data.op = op

\* the rows of the table the filters of the query let through, as the code
\* applies them
Selected ==
    { i \in 1..Len(logs) :
        /\ response.start_date # NoTime
             => logs[i].timestamp >= response.start_date
        /\ response.end_date # NoTime
             => logs[i].timestamp <= response.end_date }

SelectedWith(status) == { i \in Selected : logs[i].status = status }

\* what get_overview_metrics answers apart from the error rate
OverviewCounts(d) ==
    IF Selected = {}
    THEN /\ d.total_calls = 0
         /\ d.total_tokens = 0
         /\ d.total_cost = 0
         /\ d.avg_latency_ms = 0
         /\ d.p95_latency_ms = 0
         /\ d.error_rate = 0
         /\ d.success_count = 0
         /\ d.error_count = 0
    ELSE /\ d.total_calls = Cardinality(Selected)
         /\ d.error_count = Cardinality(SelectedWith("error"))
         /\ d.success_count + d.error_count = d.total_calls
         /\ d.p95_latency_ms >= 0

\* C21 as stated: the overview of no rows is zero in every field; the
\* overview of some rows counts them, success_count + error_count is
\* total_calls, and error_rate is exactly error_count / total_calls * 100.
C21_OverviewExactRate ==
    Answered("overview") =>
        /\ OverviewCounts(response.data)
        /\ Selected # {} =>
             response.data.error_rate * response.data.total_calls =
                 10000 * response.data.error_count

\* C21, amended: the same, with error_rate the decimal of two places
\* nearest to error_count / total_calls * 100.
C21_OverviewRoundedRate ==
    Answered("overview") =>
        /\ OverviewCounts(response.data)
        /\ Selected # {} =>
             LET off == response.data.error_rate * response.data.total_calls
                            - 10000 * response.data.error_count
             IN  2 * off <= response.data.total_calls
                 /\ 0 - 2 * off <= response.data.total_calls

\* an overview over a range that no row of a non-empty table lies in
C21_Witness ==
    /\ Answered("overview")
    /\ logs # <<>>
    /\ Selected = {}
    /\ response.data.total_calls = 0
    /\ response.data.error_rate = 0

\* the rows of the table in [start_date, end_date), a missing end of the
\* range leaving that side open
HalfOpen ==
    SelectSeq(logs,
              LAMBDA r : /\ response.start_date # NoTime
                              => r.timestamp >= response.start_date
                         /\ response.end_date # NoTime
                              => r.timestamp < response.end_date)

\* C22: a query with a time range answers for the rows in
\* [start_date, end_date): the overview counts exactly them, and the token
\* usage adds up the tokens of exactly the successful ones among them.
C22_HalfOpenRange ==
    /\ Answered("overview")
         => response.data.total_calls = Len(HalfOpen)
    /\ Answered("tokens")
         => SumField(response.data.items, "total_tokens") =
                SumField(FilterStatus(HalfOpen, "success"), "total_tokens")

\* the successful rows the query selected that are of the given model
SelectedOf(model) ==
    { i \in SelectedWith("success") : logs[i].model_name = model }

\* C23: get_latency_metrics answers one row for each model name among the
\* successful rows in range, no name twice and no other name, and the
\* count, minimum, maximum and P95 of a row are those of that model's
\* successful rows in range.
C23_OneRowPerModel ==
    Answered("latency") =>
        LET results == response.data.results
        IN  /\ \A i, j \in DOMAIN results :
                  i # j => results[i].model_name # results[j].model_name
            /\ {results[i].model_name : i \in DOMAIN results} =
                  {logs[i].model_name : i \in SelectedWith("success")}
            /\ \A i \in DOMAIN results :
                  LET own == SelectedOf(results[i].model_name)
                      lat == {logs[k].latency_ms : k \in own}
                  IN  /\ results[i].call_count = Cardinality(own)
                      /\ results[i].min_latency_ms \in lat
                      /\ results[i].max_latency_ms \in lat
                      /\ results[i].p95_latency_ms \in lat
                      /\ \A l \in lat : /\ results[i].min_latency_ms <= l
                                         /\ l <= results[i].max_latency_ms

RECURSIVE SumOver(_, _)
\* the sum of a field over the rows of the table with the given indexes
SumOver(indexes, field) ==
    IF indexes = {} THEN 0
    ELSE LET i == CHOOSE k \in indexes : TRUE
         IN  logs[i][field] + SumOver(indexes \ {i}, field)

\* the successful rows the query selected whose timestamp lies in the
\* period that starts at p
InPeriod(p) ==
    { i \in SelectedWith("success") :
        /\ p <= logs[i].timestamp
        /\ logs[i].timestamp < p + PeriodMinutes(response.data.group_by) }

\* C25: get_token_usage_over_time answers one entry for each period that
\* holds a successful row in range, in strictly ascending order of period;
\* a period starts on a multiple of its length, and the sums of an entry
\* are those of the successful rows in range that lie in its period.
C25_TokenUsageBuckets ==
    Answered("tokens") =>
        LET items == response.data.items
        IN  /\ \A i \in 1..(Len(items) - 1) :
                  items[i].period < items[i + 1].period
            /\ \A i \in SelectedWith("success") :
                  \E k \in DOMAIN items : i \in InPeriod(items[k].period)
            /\ \A k \in DOMAIN items :
                  /\ items[k].period
                         % PeriodMinutes(response.data.group_by) = 0
                  /\ InPeriod(items[k].period) # {}
                  /\ items[k].prompt_tokens =
                         SumOver(InPeriod(items[k].period), "prompt_tokens")
                  /\ items[k].completion_tokens =
                         SumOver(InPeriod(items[k].period),
                                 "completion_tokens")
                  /\ items[k].total_tokens =
                         SumOver(InPeriod(items[k].period), "total_tokens")

\* token usage by the hour over two hours, the first with two successful
\* rows at different minutes
C25_Witness ==
    /\ Answered("tokens")
    /\ response.data.group_by = "hour"
    /\ Len(response.data.items) = 2
    /\ \E i, j \in InPeriod(0) : logs[i].timestamp # logs[j].timestamp

\* the error rows the query selected that are of the given type
SelectedErrors(error_type) ==
    { i \in SelectedWith("error") : logs[i].error_type = error_type }

\* C24: get_error_metrics answers one row for each error_type among the
\* error rows in range and counts nothing else; the counts do not increase
\* along the list and add up to the number of error rows; a percentage is
\* the decimal of two places nearest to count / total_errors * 100, and the
\* percentages add up to 100 within half a hundredth for each row.
C24_ErrorBreakdown ==
    Answered("errors") =>
        LET items == response.data.items
            total_errors == Cardinality(SelectedWith("error"))
        IN  /\ \A i, j \in DOMAIN items :
                  i # j => items[i].error_type # items[j].error_type
            /\ {items[i].error_type : i \in DOMAIN items} =
                  {logs[i].error_type : i \in SelectedWith("error")}
            /\ \A i \in DOMAIN items :
                  /\ items[i].count =
                         Cardinality(SelectedErrors(items[i].error_type))
                  /\ 2 * (items[i].percentage * total_errors
                              - 10000 * items[i].count) <= total_errors
                  /\ 2 * (10000 * items[i].count
                              - items[i].percentage * total_errors)
                         <= total_errors
            /\ \A i \in 1..(Len(items) - 1) :
                  items[i].count >= items[i + 1].count
            /\ SumField(items, "count") = total_errors
            /\ total_errors > 0 =>
                  /\ 2 * (SumField(items, "percentage") - 10000) <= Len(items)
                  /\ 2 * (10000 - SumField(items, "percentage"))
                         <= Len(items)

\* a breakdown of three error rows of two types, with a successful row left
\* out: 66.67 and 33.33
C24_Witness ==
    /\ Answered("errors")
    /\ Len(response.data.items) = 2
    /\ response.data.items[1].percentage = 6667
    /\ response.data.items[2].percentage = 3333

\* C27: a _check_rule call on a rule whose metric_type is none of
\* error_rate, latency and token_spike, with rows in its window and its
\* queries answered, returns None: no alert is recorded or returned,
\* last_triggered_at stays, no notification is sent, and the pass goes on
\* with the rules left.
C27_UnknownMetricNone ==
    [][(/\ StepChecksRule
        /\ rules[lastCheck'.rule].metric_type
               \notin {"error_rate", "latency", "token_spike"}
        /\ RowsBetween(now - window, now) # <<>>
        /\ lastCheck'.outcome # "raised")
           => /\ lastCheck'.outcome = "none"
              /\ alertLogs' = alertLogs
              /\ rules' = rules
              /\ triggered_alerts' = triggered_alerts
              /\ notifyCalls' = notifyCalls
              /\ outbox' = outbox
              /\ pc' = "running"
              /\ active_rules' = Tail(active_rules)]_vars

\* a rule of an unknown metric_type with threshold 0 has been checked on a
\* window with a row in it and returned None, and the pass has a rule left
C27_Witness ==
    /\ pc = "running"
    /\ lastCheck.outcome = "none"
    /\ CheckedRule.metric_type = "other"
    /\ CheckedRule.threshold = 0
    /\ CheckedWindow # <<>>
    /\ active_rules = <<1>>
    /\ alertLogs = <<>>

\* C26: in one check_all_alerts call a rule gets at most one AlertLog and
\* at most one notification, and for a rule that triggers the call saves
\* last_triggered_at right after it has created the AlertLog and calls the
\* notifier right after that save, with nothing for another rule between.
C26_OneAlertPerRulePerPass ==
    \A p \in Passes :
        LET trace == callers[p].trace
        IN  /\ \A i, j \in DOMAIN trace : i # j => trace[i] # trace[j]
            /\ \A k \in DOMAIN trace :
                  /\ trace[k][1] = "notify"
                        => k > 1 /\ trace[k - 1] = <<"save", trace[k][2]>>
                  /\ trace[k][1] = "save"
                        => k > 1 /\ trace[k - 1] = <<"create", trace[k][2]>>

\* a call has triggered, stamped and notified for two rules while the other
\* call was writing too
C26_Witness ==
    \E p, q \in Passes :
        /\ p # q
        /\ Len(callers[p].trace) = 6
        /\ callers[p].trace[3][1] = "notify"
        /\ callers[p].trace[6][1] = "notify"
        /\ callers[q].trace # <<>>
        /\ callers[q].pc # "returned"

\* C29: a rule's last_triggered_at is null exactly when no AlertLog refers
\* to the rule, and otherwise it is not earlier than triggered_at of any
\* AlertLog of the rule.
C29_StampCoversAlerts ==
    \A id \in RuleIds :
        LET own == {i \in DOMAIN alertLogs : alertLogs[i].alert_rule = id}
        IN  /\ rules[id].last_triggered_at = NoTime <=> own = {}
            /\ \A i \in own :
                  rules[id].last_triggered_at >= alertLogs[i].triggered_at

\* C28: whatever create_default_rules calls have run, one after the other
\* or side by side, no call raises, no default name has two rules, and once
\* all calls have returned every default name has exactly one rule; a call
\* leaves the rules it finds as they are, and its list holds the rules it
\* created, each of them once.
C28_DefaultsIdempotent ==
    /\ []( /\ \A c \in DefaultCalls : callers[c].pc # "raised"
           /\ \A k \in DOMAIN Defaults :
                 Cardinality(Named(rules, Defaults[k].name)) <= 1
           /\ (\A c \in DefaultCalls : callers[c].pc = "returned")
                 => \A k \in DOMAIN Defaults :
                        Cardinality(Named(rules, Defaults[k].name)) = 1
           /\ \A c, d \in DefaultCalls :
                 \A i \in DOMAIN callers[c].created_rules :
                    \A j \in DOMAIN callers[d].created_rules :
                       (c # d \/ i # j)
                          => callers[c].created_rules[i]
                                 # callers[d].created_rules[j] )
    /\ [][/\ SubSeq(rules', 1, Len(rules)) = rules
          /\ \A c \in DefaultCalls :
                callers'[c].created_rules # callers[c].created_rules
                   => /\ Len(rules') = Len(rules) + 1
                      /\ callers'[c].created_rules =
                             Append(callers[c].created_rules, Len(rules'))]_vars

\* the failed requests among the first k that came in while row i was the
\* email's pending OTP
FailedFor(i, k) ==
    {j \in 1..k : requests[j].pending = i /\ ~requests[j].ok}

\* C30: a verification request succeeds only where fewer than three
\* requests with a wrong code were answered before it for the same pending
\* OTP, and every failed request for a pending OTP is counted in its
\* attempts.
C30_ThreeAttempts ==
    /\ \A k \in DOMAIN requests :
          (requests[k].ok /\ requests[k].pending # 0)
             => Cardinality({j \in FailedFor(requests[k].pending, k) :
                                requests[j].otp_code
                                   # otps[requests[k].pending].otp_code}) < 3
    /\ \A i \in DOMAIN otps :
          otps[i].attempts >= Cardinality(FailedFor(i, Len(requests)))

====
